---- MODULE Spec2Model ----
(***************************************************************************)
(* Model of build_scripts/post_actions.py: the post-compose pipeline that  *)
(* reorganises a compose tree, rewrites its JSON manifests and promotes    *)
(* the result directory behind the "latest" symlink.                       *)
(*                                                                         *)
(* Specifications:                                                         *)
(*   Spec         cli_main as written, from argument parsing to exit       *)
(*   SpecPromote  rename_latest_dir, one filesystem call per step          *)
(*   SpecManifest the three manifest rewriters on bounded documents        *)
(*   SpecBody     the body of cli_main's loop applied to one result        *)
(***************************************************************************)
EXTENDS Integers, Sequences, FiniteSets, TLC

VARIABLES
    pc,           \* position of the running script
    args,         \* parsed command line
    now,          \* last value read from time()
    results,      \* the pungi-results directory: entry name -> entry
    results0,     \* pungi-results when the operation under study started
    latest,       \* name of the latest-* entry being processed
    locals,       \* local variables of rename_latest_dir
    gen,          \* items the glob generator has not yielded yet
    processed,    \* latest-* entries the loop body of cli_main was run for
    middle_fs,    \* compose tree of the --middle-result-directory (<<>>: none)
    fs,           \* compose tree of the processed result: path -> kind
    fs0,          \* the tree when the function last called was entered
    inode,        \* file path of fs -> the file (inode) it names
    data,         \* file (inode) -> its content
    files0,       \* inode and data when the function last called was entered
    rglob,        \* the paths a glob or rglob loop in progress has yet to visit
    signer,       \* the file being signed, the Signer object and its caller
    http,         \* the requests the sign service has answered, in order
    attempts,     \* the files a Signer was constructed for, in order
    effects,      \* the warnings logged, files copied and commands run
    composeinfo,  \* payload.variants of composeinfo.json
    rpms,         \* payload.rpms of rpms.json
    images,       \* payload.images of images.json
    docs0,        \* the three documents as they were before rewriting
    repo_i,       \* index of the current repo in args.repos
    trace         \* names of the pipeline steps completed so far

vars == <<pc, args, now, results, results0, latest, locals, gen, processed,
          middle_fs, fs, fs0, inode, data, files0, rglob, signer, http,
          attempts, effects, composeinfo, rpms,
          images, docs0, repo_i, trace>>

(***************************************************************************)
(* Bounds                                                                  *)
(***************************************************************************)
MaxTime == 2

MaxImages == 2

(***************************************************************************)
(* Names and paths.  An entry name is a sequence of string tokens, so that *)
(* str.startswith is a prefix test on it.  A path is a record of an        *)
(* absolute flag and a sequence of names.                                  *)
(***************************************************************************)
PUNGI_RESULTS == <<"pungi-results">>

LAST_COMPOSE_PREFIX == <<"last_compose_dir">>

LATEST_GLOB_PREFIX == <<"latest-">>

StartsWith(name, prefix) ==
    /\ Len(prefix) <= Len(name)
    /\ SubSeq(name, 1, Len(prefix)) = prefix

\* Line 566: old_real_name.startswith('last_compose_dir')
InProgressAlways(name) == TRUE

InProgress(name) == StartsWith(name, LAST_COMPOSE_PREFIX)

\* f'{int(time())}-{old_real_name}'
StampedName(t, name) == <<ToString(t), "-">> \o name

\* The working directory of the script and the --env-path argument.
Cwd == << <<"work">> >>

EnvComps == << <<"env">> >>

\* Path(args.env_path).joinpath(PUNGI_RESULTS)
PungiResultsPath(a) ==
    [abs |-> a.env_abs, comps |-> EnvComps \o <<PUNGI_RESULTS>>]

JoinPath(p, name) == [abs |-> p.abs, comps |-> Append(p.comps, name)]

\* Where the kernel finds a path the script names: relative paths start at
\* the working directory.
AbsOf(p) == IF p.abs THEN p.comps ELSE Cwd \o p.comps

\* Where the kernel finds the target of a symlink stored in pungi-results:
\* a relative target starts at the directory holding the link.
LinkDest(a, target) ==
    IF target.abs THEN target.comps
    ELSE AbsOf(PungiResultsPath(a)) \o target.comps

\* Path(...).name
BaseName(p) == IF p.comps = <<>> THEN <<>> ELSE p.comps[Len(p.comps)]

IsDir(r, n) == n \in DOMAIN r /\ r[n].kind = "dir"

IsLink(r, n) == n \in DOMAIN r /\ r[n].kind = "link"

\* The link n of pungi-results resolves to the directory d of pungi-results.
PointsTo(a, r, n, d) ==
    /\ IsLink(r, n)
    /\ IsDir(r, d)
    /\ LinkDest(a, r[n].target) = AbsOf(PungiResultsPath(a)) \o <<d>>

Resolves(a, r, n) == \E d \in DOMAIN r : PointsTo(a, r, n, d)

\* os.rename of directory old onto new inside pungi-results succeeds when
\* new is absent or an empty directory.
RenameAllowed(r, old, new) ==
    /\ IsDir(r, old)
    /\ new \in DOMAIN r => (r[new].kind = "dir" /\ r[new].content = "empty")

RenameEntry(r, old, new) ==
    [n \in (DOMAIN r \ {old}) \cup {new} |->
        IF n = new THEN r[old] ELSE r[n]]

RemoveEntry(r, n) == [m \in DOMAIN r \ {n} |-> r[m]]

PutEntry(r, n, e) == [m \in DOMAIN r \cup {n} |-> IF m = n THEN e ELSE r[m]]

NoLocals == [old |-> <<>>, new |-> <<>>]

(***************************************************************************)
(* rename_latest_dir.  latest_path.parent is the latest-* entry; the       *)
(* function reads its target, renames the real directory, removes the link *)
(* and creates it again.  One action per filesystem call that writes.      *)
(***************************************************************************)
\* os.symlink(new_real_name_path, latest_path.parent): the link text is the
\* path as the script spells it.
NewLinkTarget(a, new) == JoinPath(PungiResultsPath(a), new)

\* Lines 565-580: readlink, the prefix and existence tests, the rename.
RenameLatestDir_Rename ==
    /\ pc = "rename_latest_dir"
    /\ \E t \in now..MaxTime :
        /\ now' = t
        /\ IF ~IsLink(results, latest)
           THEN \* os.readlink raises OSError
                /\ pc' = "raised"
                /\ UNCHANGED <<results, locals>>
           ELSE LET old == BaseName(results[latest].target)
                    new == StampedName(t, old)
                IN  IF ~InProgress(old)
                    THEN /\ pc' = "done"
                         /\ UNCHANGED <<results, locals>>
                    ELSE IF ~(old \in DOMAIN results)
                    THEN /\ pc' = "done"
                         /\ locals' = [old |-> old, new |-> new]
                         /\ UNCHANGED results
                    ELSE IF ~RenameAllowed(results, old, new)
                    THEN /\ pc' = "raised"
                         /\ locals' = [old |-> old, new |-> new]
                         /\ UNCHANGED results
                    ELSE /\ pc' = "rl_unlink"
                         /\ locals' = [old |-> old, new |-> new]
                         /\ results' = RenameEntry(results, old, new)
    /\ trace' = Append(trace, "rename_latest_dir")
    /\ UNCHANGED <<args, effects, attempts, signer, http, rglob, inode, data, files0, fs0, results0, latest, gen, processed, middle_fs, fs,
                   composeinfo, rpms, images, docs0, repo_i>>

\* Line 581: os.unlink(latest_path.parent)
RenameLatestDir_Unlink ==
    /\ pc = "rl_unlink"
    /\ results' = RemoveEntry(results, latest)
    /\ pc' = "rl_symlink"
    /\ UNCHANGED <<args, effects, attempts, signer, http, rglob, inode, data, files0, fs0, now, results0, latest, locals, gen, processed,
                   middle_fs, fs, composeinfo, rpms, images, docs0, repo_i,
                   trace>>

\* Line 582: os.symlink(new_real_name_path, latest_path.parent)
RenameLatestDir_Symlink ==
    /\ pc = "rl_symlink"
    /\ results' = PutEntry(results, latest,
                    [kind |-> "link",
                     target |-> NewLinkTarget(args, locals.new)])
    /\ pc' = "done"
    /\ UNCHANGED <<args, effects, attempts, signer, http, rglob, inode, data, files0, fs0, now, results0, latest, locals, gen, processed,
                   middle_fs, fs, composeinfo, rpms, images, docs0, repo_i,
                   trace>>

(***************************************************************************)
(* The compose tree.  A path is a sequence of component strings relative   *)
(* to latest_path (<result>/compose); fs maps each existing path to "dir"  *)
(* or "file".                                                              *)
(***************************************************************************)
IsPrefix(p, q) == Len(p) <= Len(q) /\ SubSeq(q, 1, Len(p)) = p

Exists(f, p) == p \in DOMAIN f

Parent(p) == SubSeq(p, 1, Len(p) - 1)

Under(f, p) == {q \in DOMAIN f : IsPrefix(p, q)}

\* The orders in which a directory scan may yield a set of names
Orders(names) ==
    {q \in [1..Cardinality(names) -> names] :
        \A i, j \in DOMAIN q : i # j => q[i] # q[j]}

Children(f, p) == {q \in DOMAIN f : Len(q) = Len(p) + 1 /\ IsPrefix(p, q)}

RmTreeKeepsRoot(f, p) == [q \in DOMAIN f \ (Under(f, p) \ {p}) |-> f[q]]

\* shutil.rmtree
RmTree(f, p) == [q \in DOMAIN f \ Under(f, p) |-> f[q]]

\* os.makedirs(p, exist_ok=True)
MakeDirs(f, p) ==
    LET new == {SubSeq(p, 1, i) : i \in 0..Len(p)} \ DOMAIN f
    IN  [q \in DOMAIN f \cup new |-> IF q \in new THEN "dir" ELSE f[q]]

\* Path.rename succeeds when the source exists, the parent of the destination
\* is a directory, and the destination is absent, an empty directory (for a
\* directory) or a file (for a file).
CanRename(f, src, dst) ==
    /\ Exists(f, src)
    /\ Exists(f, Parent(dst)) /\ f[Parent(dst)] = "dir"
    /\ Exists(f, dst) =>
         /\ f[dst] = f[src]
         /\ f[dst] = "dir" => Children(f, dst) = {}

Rebase(q, src, dst) == dst \o SubSeq(q, Len(src) + 1, Len(q))

RenameInto(f, src, dst) ==
    LET moved == Under(f, src)
        to(q) == Rebase(q, Parent(src), dst)
    IN  [q \in (DOMAIN f \ moved) \cup {to(m) : m \in moved} |->
            IF q \in DOMAIN f \ moved THEN f[q]
            ELSE f[CHOOSE m \in moved : to(m) = q]]

Rename(f, src, dst) ==
    LET moved == Under(f, src)
        kept  == DOMAIN f \ (moved \cup Under(f, dst))
        back  == [q \in {Rebase(m, src, dst) : m \in moved} |->
                    CHOOSE m \in moved : Rebase(m, src, dst) = q]
    IN  [q \in kept \cup DOMAIN back |->
            IF q \in DOMAIN back THEN f[back[q]] ELSE f[q]]

(***************************************************************************)
(* Files and their contents.  Two paths that name the same file (hardlinks)*)
(* have the same inode.  A content is a record: cfg is what ConfigParser   *)
(* reads from the file (section -> option -> value, a value being a        *)
(* sequence of pieces of text), text is the content as a sequence of       *)
(* blocks, each block named by the file it was first written to.           *)
(***************************************************************************)
Files(f) == {p \in DOMAIN f : f[p] = "file"}

OrigInode(p) == <<"orig", p>>

OrigInodes(f) == [p \in Files(f) |-> OrigInode(p)]

INCLUDED_TO_KICKSTART_REPO == "AppStream"

KickstartSection == "variant-" \o INCLUDED_TO_KICKSTART_REPO

\* The .treeinfo of <variant>/<arch>/os as the compose tool writes it; the
\* tree of BaseOS also describes the variant included in kickstart.
OrigPackages(a) == <<"../../../AppStream/", a, "/", "os", "/Packages">>

OrigRepository(a) == <<"../../../AppStream/", a, "/", "os">>

TreeInfo(v, a) ==
    LET own == "variant-" \o v
        sections == {"general", "tree", own}
                    \cup (IF v = "BaseOS" THEN {KickstartSection} ELSE {})
    IN  [s \in sections |->
            IF s = "general"
            THEN [timestamp |-> <<"0">>, variant |-> <<v>>, arch |-> <<a>>]
            ELSE IF s = "tree"
            THEN [build_timestamp |-> <<"0">>, arch |-> <<a>>,
                  variants |-> <<v>>]
            ELSE IF s = own
            THEN [id |-> <<v>>, packages |-> <<"Packages">>,
                  repository |-> <<".">>]
            ELSE [id |-> <<INCLUDED_TO_KICKSTART_REPO>>,
                  packages |-> OrigPackages(a),
                  repository |-> OrigRepository(a)]]

IsTreeInfo(p) == Len(p) > 0 /\ p[Len(p)] = ".treeinfo"

\* Lines 285-298: timestamp of [general] and build_timestamp of [tree]
WithTimestamp(cfg, t) ==
    [cfg EXCEPT !["general"] = [@ EXCEPT !.timestamp = <<ToString(t)>>],
                !["tree"] = [@ EXCEPT !.build_timestamp = <<ToString(t)>>]]

\* A replacement that turns each "os" into "kickstart" and each "kickstart"
\* back into "os"
SwapOs(value) ==
    [k \in DOMAIN value |->
        IF value[k] = "os" THEN "kickstart"
        ELSE IF value[k] = "kickstart" THEN "os" ELSE value[k]]

\* str.replace('os', 'kickstart') on a value cut into pieces at each "os"
ReplaceOs(value) ==
    [k \in DOMAIN value |-> IF value[k] = "os" THEN "kickstart" ELSE value[k]]

\* A descriptor holding the rewritten section and nothing else
KickstartSectionOnly(cfg) ==
    [s \in DOMAIN cfg \cap {KickstartSection} |->
        [o \in DOMAIN cfg[s] |->
            IF o \in {"packages", "repository"}
            THEN ReplaceOs(cfg[s][o]) ELSE cfg[s][o]]]

\* Lines 311-336: the configuration update_kickstart_treeinfo_file writes
KickstartCfg(cfg) ==
    [s \in DOMAIN cfg |->
        IF s = KickstartSection
        THEN [o \in DOMAIN cfg[s] |->
                IF o \in {"packages", "repository"}
                THEN ReplaceOs(cfg[s][o]) ELSE cfg[s][o]]
        ELSE cfg[s]]

\* Lines 339-342: os.remove(tree_info_path), then the file is written anew
SameFile(i, p) == i[p]

RewrittenFile(i, p) == <<"new", p>>

OrigContent(x) ==
    [cfg |-> IF IsTreeInfo(x[2]) /\ Len(x[2]) = 4
             THEN TreeInfo(x[2][1], x[2][2]) ELSE <<>>,
     text |-> <<x>>]

OrigData(i) == [x \in {i[p] : p \in DOMAIN i} |-> OrigContent(x)]

\* The contents of the files that still have a name.
Live(i, d) == [x \in {i[p] : p \in DOMAIN i} |-> d[x]]

\* A new file at path p with content c (a file already there is replaced).
Create(i, p, x) == [q \in DOMAIN i \cup {p} |-> IF q = p THEN x ELSE i[q]]

Write(d, x, c) == [y \in DOMAIN d \cup {x} |-> IF y = x THEN c ELSE d[y]]

Text(x) == [cfg |-> <<>>, text |-> <<x>>]

\* open(path, 'w') in place of 'a+': the content is replaced
Overwritten(c, blocks) == [c EXCEPT !.text = blocks]

Appended(c, blocks) == [c EXCEPT !.text = c.text \o blocks]

(***************************************************************************)
(* PATH_DICTIONARY and the manifest rewriters.  A template is a sequence   *)
(* of components in which "{arch}" stands for the architecture.            *)
(***************************************************************************)
PATH_DICTIONARY ==
    [debug             |-> <<"debug", "{arch}">>,
     source            |-> <<"Source">>,
     source_packages   |-> <<"Source", "Packages">>,
     source_repository |-> <<"Source">>,
     source_tree       |-> <<"Source">>,
     debug_packages    |-> <<"debug", "{arch}", "Packages">>,
     debug_repository  |-> <<"debug", "{arch}">>,
     debug_tree        |-> <<"debug", "{arch}">>]

\* PATH_DICTIONARY[key] is not None
HasMapping(key) == key \in DOMAIN PATH_DICTIONARY

\* path_suffix.format(arch=arch)
Format(tpl, arch) ==
    [i \in 1..Len(tpl) |-> IF tpl[i] = "{arch}" THEN arch ELSE tpl[i]]

\* Path(p).name
FileName(p) == IF p = <<>> THEN "" ELSE p[Len(p)]

\* Path(p).parent.name
ParentName(p) == IF Len(p) < 2 THEN "" ELSE p[Len(p) - 1]

\* Path(a).joinpath(b, c, ...): empty segments add no component.
JoinSegments(segs) ==
    LET RECURSIVE Join(_)
        Join(i) == IF i > Len(segs) THEN <<>>
                   ELSE (IF segs[i] = "" THEN <<>> ELSE <<segs[i]>>)
                            \o Join(i + 1)
    IN  Join(1)

\* The mapped subpath put before the whole of the old path
PrefixedArtifactPath(variant, arch, category, path) ==
    <<variant>> \o Format(PATH_DICTIONARY[category], arch) \o path

\* Lines 439-444: the rewritten path of an artifact of rpms.json
NewArtifactPath(variant, arch, category, path) ==
    <<variant>> \o Format(PATH_DICTIONARY[category], arch)
        \o JoinSegments(<<ParentName(path), FileName(path)>>)

\* Lines 422-444: the loop of post_processing_rpms_json_metadata
RpmsLoop(doc) ==
    [v \in DOMAIN doc |->
        IF v = "Minimal" THEN doc[v]
        ELSE [a \in DOMAIN doc[v] |->
                [s \in DOMAIN doc[v][a] |->
                    [r \in DOMAIN doc[v][a][s] |->
                        LET art == doc[v][a][s][r]
                        IN  IF ~HasMapping(art.category) THEN art
                            ELSE [art EXCEPT !.path =
                                    NewArtifactPath(v, a, art.category,
                                                    art.path)]]]]]

\* Lines 447-448 and 488-489: del content[...]['Minimal']
DropMinimal(doc) == [v \in DOMAIN doc \ {"Minimal"} |-> doc[v]]

\* Lines 484-485: the rewritten path of a composeinfo entry
NewComposePath(variant, arch, path_type, path) ==
    <<variant>> \o Format(PATH_DICTIONARY[path_type], arch)

\* Lines 471-485: the loop of post_processing_compose_info_json_metadata
ComposeInfoLoop(doc) ==
    [v \in DOMAIN doc |->
        IF v = "Minimal" THEN doc[v]
        ELSE [doc[v] EXCEPT !.paths =
                [pt \in DOMAIN doc[v].paths |->
                    [a \in DOMAIN doc[v].paths[pt] |->
                        IF ~HasMapping(pt) THEN doc[v].paths[pt][a]
                        ELSE NewComposePath(v, a, pt,
                                            doc[v].paths[pt][a])]]]]

\* Lines 392-395: the rewritten path of an image
NewImagePathOfArg(run_arch, arch, path) == <<"isos", run_arch, FileName(path)>>

NewImagePath(run_arch, arch, path) == <<"isos", arch, FileName(path)>>

\* Lines 385-398: the loop of post_processing_images_json_metadata; the loop
\* variable arch shadows the function's parameter.
ImagesLoop(doc, run_arch) ==
    [v \in DOMAIN doc |->
        [a \in DOMAIN doc[v] |->
            [i \in DOMAIN doc[v][a] |->
                [doc[v][a][i] EXCEPT !.path =
                    NewImagePath(run_arch, a, doc[v][a][i].path)]]]]

MetadataPath == <<"metadata">>

MetadataArchPath(a) == <<"metadata", a.arch>>

JsonPath(a, name) == MetadataArchPath(a) \o <<name>>

\* Path(metadata_path).glob('*.json')
JsonFiles(f) ==
    {q \in Children(f, MetadataPath) :
        f[q] = "file"
        /\ q[Len(q)] \in {"composeinfo.json", "rpms.json", "images.json"}}

\* Lines 497-511: every metadata/*.json is renamed into metadata/<arch>/
MovedJson(f, a) ==
    LET RECURSIVE Move(_, _)
        Move(g, todo) ==
            IF todo = {} THEN g
            ELSE LET q == CHOOSE x \in todo : TRUE
                 IN  Move(Rename(g, q, JsonPath(a, q[Len(q)])), todo \ {q})
    IN  Move(MakeDirs(f, MetadataArchPath(a)), JsonFiles(f))

MovedJsonInodes(i, f, a) ==
    LET to == {JsonPath(a, q[Len(q)]) : q \in JsonFiles(f)}
    IN  [q \in ((DOMAIN i \ JsonFiles(f)) \cup to) |->
            IF q \in to THEN i[MetadataPath \o <<q[Len(q)]>>] ELSE i[q]]

move_json_metadata_to_arch_folder ==
    /\ pc = "move_json_metadata_to_arch_folder"
    /\ IF ~Exists(fs, <<>>)
       THEN \* os.makedirs below a link that names no directory
            /\ pc' = "raised"
            /\ UNCHANGED <<fs, inode, data, trace>>
       ELSE /\ fs' = MovedJson(fs, args)
            /\ inode' = MovedJsonInodes(inode, fs, args)
            /\ data' = Live(inode', data)
            /\ pc' = "post_processing_compose_info_json_metadata"
            /\ trace' = Append(trace, "move_json_metadata_to_arch_folder")
    /\ UNCHANGED <<args, effects, attempts, signer, http, rglob, files0, fs0, now, results, results0, latest, locals, gen,
                   processed, middle_fs, composeinfo, rpms, images, docs0,
                   repo_i>>

post_processing_compose_info_json_metadata ==
    /\ pc = "post_processing_compose_info_json_metadata"
    /\ composeinfo' =
         IF Exists(fs, JsonPath(args, "composeinfo.json"))
         THEN DropMinimal(ComposeInfoLoop(composeinfo))
         ELSE composeinfo
    /\ pc' = "post_processing_rpms_json_metadata"
    /\ trace' = Append(trace, "post_processing_compose_info_json_metadata")
    /\ UNCHANGED <<args, effects, attempts, signer, http, rglob, inode, data, files0, fs0, now, results, results0, latest, locals, gen,
                   processed, middle_fs, fs, rpms, images, docs0, repo_i>>

post_processing_rpms_json_metadata ==
    /\ pc = "post_processing_rpms_json_metadata"
    /\ rpms' =
         IF Exists(fs, JsonPath(args, "rpms.json"))
         THEN DropMinimal(RpmsLoop(rpms))
         ELSE rpms
    /\ pc' = "post_processing_images_json_metadata"
    /\ trace' = Append(trace, "post_processing_rpms_json_metadata")
    /\ UNCHANGED <<args, effects, attempts, signer, http, rglob, inode, data, files0, fs0, now, results, results0, latest, locals, gen,
                   processed, middle_fs, fs, composeinfo, images, docs0,
                   repo_i>>

post_processing_images_json_metadata ==
    /\ pc = "post_processing_images_json_metadata"
    /\ images' =
         IF Exists(fs, JsonPath(args, "images.json"))
         THEN ImagesLoop(images, args.arch)
         ELSE images
    /\ pc' = IF args.sign THEN "sign_isos_checksum" ELSE "merge_middle_isos"
    /\ trace' = Append(trace, "post_processing_images_json_metadata")
    /\ UNCHANGED <<args, effects, attempts, signer, http, rglob, inode, data, files0, fs0, now, results, results0, latest, locals, gen,
                   processed, middle_fs, fs, composeinfo, rpms, docs0,
                   repo_i>>

(***************************************************************************)
(* The body of cli_main's loop over latest_result_paths (lines 681-791),   *)
(* one action per call.  A step that completes appends its name (and the   *)
(* repo it ran for) to trace; a step that raises ends the run.  The        *)
(* contents of files are not part of the state: only which paths exist.    *)
(***************************************************************************)
\* An exception propagates out of cli_main: nothing after it runs.
OnRaiseSwallowed(next) == next

OnRaise(next) == "raised"

Step(name, repo) == name \o ":" \o repo

CurrentRepo == args.repos[repo_i]

InSeq(x, seq) == \E i \in DOMAIN seq : seq[i] = x

\* Lines 681-682: latest_path = .../compose; build_timestamp = int(time())
LoopBodyStart ==
    /\ pc = "loop_body"
    /\ \E t \in now..MaxTime : now' = t
    /\ repo_i' = 0
    /\ pc' = "repo_loop"
    /\ UNCHANGED <<args, effects, attempts, signer, http, rglob, inode, data, files0, fs0, results, results0, latest, locals, gen, processed,
                   middle_fs, fs, composeinfo, rpms, images, docs0, trace>>

\* Lines 684-691: the head of the loop over args.repos
RepoLoopHead ==
    /\ pc = "repo_loop"
    /\ IF repo_i = Len(args.repos)
       THEN /\ pc' = "move_json_metadata_to_arch_folder"
            /\ UNCHANGED <<repo_i, fs, inode, data, trace>>
       ELSE LET repo == args.repos[repo_i + 1]
            IN  /\ repo_i' = repo_i + 1
                /\ IF ~Exists(fs, <<repo>>)
                   THEN /\ pc' = "repo_loop"
                        /\ trace' = Append(trace, Step("skip", repo))
                        /\ UNCHANGED <<fs, inode, data>>
                   ELSE IF InSeq(repo, args.middle_repos)
                   THEN /\ fs' = RmTree(fs, <<repo>>)
                        /\ inode' = RmTree(inode, <<repo>>)
                        /\ data' = Live(inode', data)
                        /\ pc' = "repo_loop"
                        /\ trace' = Append(trace, Step("strip", repo))
                   ELSE /\ pc' = "move_sources_folder_to_right_place"
                        /\ UNCHANGED <<fs, inode, data, trace>>
    /\ UNCHANGED <<args, effects, attempts, signer, http, rglob, files0, fs0, now, results, results0, latest, locals, gen,
                   processed, middle_fs, composeinfo, rpms, images, docs0>>

\* Lines 123-132: the test of the wrapper and the rename of source/tree
move_sources_folder_to_right_place ==
    /\ pc = "move_sources_folder_to_right_place"
    /\ fs0' = fs
    /\ files0' = [inode |-> inode, data |-> data]
    /\ LET src == <<CurrentRepo, "source">>
           dst == <<CurrentRepo>> \o PATH_DICTIONARY["source"]
       IN  IF ~Exists(fs, src)
           THEN /\ pc' = "move_debug_folder_to_right_place"
                /\ trace' = Append(trace,
                              Step("move_sources_folder_to_right_place",
                                   CurrentRepo))
                /\ UNCHANGED <<fs, inode>>
           ELSE IF ~CanRename(fs, src \o <<"tree">>, dst)
           THEN /\ pc' = OnRaise("move_sources_rmtree")
                /\ UNCHANGED <<fs, inode, trace>>
           ELSE /\ fs' = Rename(fs, src \o <<"tree">>, dst)
                /\ inode' = Rename(inode, src \o <<"tree">>, dst)
                /\ pc' = "move_sources_rmtree"
                /\ UNCHANGED trace
    /\ UNCHANGED <<args, effects, attempts, signer, http, rglob, data, now, results, results0, latest, locals, gen,
                   processed, middle_fs, composeinfo, rpms, images, docs0,
                   repo_i>>

\* Line 133: rmtree(src_of_sources)
move_sources_rmtree ==
    /\ pc = "move_sources_rmtree"
    /\ fs' = RmTree(fs, <<CurrentRepo, "source">>)
    /\ inode' = RmTree(inode, <<CurrentRepo, "source">>)
    /\ data' = Live(inode', data)
    /\ pc' = "move_debug_folder_to_right_place"
    /\ trace' = Append(trace,
                  Step("move_sources_folder_to_right_place", CurrentRepo))
    /\ UNCHANGED <<args, effects, attempts, signer, http, rglob, files0, fs0, now, results, results0, latest, locals, gen,
                   processed, middle_fs, composeinfo, rpms, images, docs0,
                   repo_i>>

\* Lines 141-154: the test of the wrapper and os.makedirs(dst_of_debug.parent)
move_debug_folder_to_right_place ==
    /\ pc = "move_debug_folder_to_right_place"
    /\ fs0' = fs
    /\ files0' = [inode |-> inode, data |-> data]
    /\ LET src == <<CurrentRepo, args.arch, "debug">>
           dst == <<CurrentRepo>>
                    \o Format(PATH_DICTIONARY["debug"], args.arch)
       IN  IF ~Exists(fs, src)
           THEN /\ pc' = "copy_updateinfo_from_platform_repos"
                /\ trace' = Append(trace,
                              Step("move_debug_folder_to_right_place",
                                   CurrentRepo))
                /\ UNCHANGED fs
           ELSE /\ fs' = MakeDirs(fs, Parent(dst))
                /\ pc' = "move_debug_rename"
                /\ UNCHANGED trace
    /\ UNCHANGED <<args, effects, attempts, signer, http, rglob, inode, data, now, results, results0, latest, locals, gen,
                   processed, middle_fs, composeinfo, rpms, images, docs0,
                   repo_i>>

\* Line 155: src_of_debug.joinpath('tree').rename(dst_of_debug)
move_debug_rename ==
    /\ pc = "move_debug_rename"
    /\ LET src == <<CurrentRepo, args.arch, "debug">>
           dst == <<CurrentRepo>>
                    \o Format(PATH_DICTIONARY["debug"], args.arch)
       IN  IF CanRename(fs, src \o <<"tree">>, dst)
           THEN /\ fs' = Rename(fs, src \o <<"tree">>, dst)
                /\ inode' = Rename(inode, src \o <<"tree">>, dst)
                /\ pc' = "move_debug_rmtree"
           ELSE /\ pc' = OnRaise("move_debug_rmtree")
                /\ UNCHANGED <<fs, inode>>
    /\ UNCHANGED <<args, effects, attempts, signer, http, rglob, data, files0, fs0, now, results, results0, latest, locals, gen,
                   processed, middle_fs, composeinfo, rpms, images, docs0,
                   repo_i, trace>>

\* Line 156: rmtree(src_of_debug)
move_debug_rmtree ==
    /\ pc = "move_debug_rmtree"
    /\ fs' = RmTree(fs, <<CurrentRepo, args.arch, "debug">>)
    /\ inode' = RmTree(inode, <<CurrentRepo, args.arch, "debug">>)
    /\ data' = Live(inode', data)
    /\ pc' = "copy_updateinfo_from_platform_repos"
    /\ trace' = Append(trace,
                  Step("move_debug_folder_to_right_place", CurrentRepo))
    /\ UNCHANGED <<args, effects, attempts, signer, http, rglob, files0, fs0, now, results, results0, latest, locals, gen,
                   processed, middle_fs, composeinfo, rpms, images, docs0,
                   repo_i>>

AddFile(f, p) == [q \in DOMAIN f \cup {p} |-> IF q = p THEN "file" ELSE f[q]]

\* repo_name.lower()
Lower(v) == IF v = "BaseOS" THEN "baseos"
            ELSE IF v = "Minimal" THEN "minimal"
            ELSE IF v = "Extras" THEN "extras" ELSE v

\* Lines 168-171: the directory of the platform store the glob looks into;
\* [0-9] stands for the one digit of the release.
PlatformRepodata(repo, arch) ==
    <<"platform-almalinux-8-" \o Lower(repo) \o "-" \o arch, "repodata">>

\* The files of the store that match *updateinfo*, by repo
UpdateinfoMatches(store, repo, arch) ==
    {p \in store : IsPrefix(PlatformRepodata(repo, arch), p)}

OsPath == <<CurrentRepo, args.arch, "os">>

KickstartPath == <<CurrentRepo, args.arch, "kickstart">>

\* Lines 159-171.  args.platform holds the files of the platform store
\* whose name matches *updateinfo*; the glob yields them in any order.
copy_updateinfo_from_platform_repos ==
    /\ pc = "copy_updateinfo_from_platform_repos"
    /\ fs0' = fs
    /\ files0' = [inode |-> inode, data |-> data]
    /\ IF Exists(fs, OsPath)
       THEN /\ rglob' \in Orders(UpdateinfoMatches(args.platform,
                                                   CurrentRepo, args.arch))
            /\ pc' = "for_updateinfo_path"
            /\ UNCHANGED <<trace, effects>>
       ELSE /\ rglob' = <<>>
            /\ pc' = "create_kickstart_folder"
            /\ trace' = Append(trace,
                          Step("copy_updateinfo_from_platform_repos",
                               CurrentRepo))
            /\ UNCHANGED effects
    /\ UNCHANGED <<args, attempts, signer, http, inode, data, fs, now,
                   results, results0, latest, locals, gen, processed,
                   middle_fs, composeinfo, rpms, images, docs0, repo_i>>

\* `continue` in place of `return`: the loop goes on to the next file
ContinueOnExisting == "continue"

\* Lines 173-174: if dst_file.exists(): return
OnExisting == "return"

\* Lines 168-190: the first file the glob yields is copied into repodata of
\* os and registered with modifyrepo_c, unless a file of its name is there;
\* without any file a warning is logged.  rglob keeps what the glob
\* yielded.
for_updateinfo_path ==
    /\ pc = "for_updateinfo_path"
    /\ LET repodata == OsPath \o <<"repodata">>
           repomd   == repodata \o <<"repomd.xml">>
           done     == Append(trace,
                         Step("copy_updateinfo_from_platform_repos",
                              CurrentRepo))
       IN  IF rglob = <<>>
           THEN /\ effects' = Append(effects, [kind |-> "warning",
                                               path |-> OsPath])
                /\ pc' = "create_kickstart_folder"
                /\ trace' = done
                /\ UNCHANGED <<fs, inode, data, rglob>>
           ELSE LET path     == Head(rglob)
                    dst_file == repodata \o <<FileName(path)>>
                    copied   == <<"platform", dst_file>>
                    copy     == [kind |-> "copy", path |-> dst_file]
                    IN  IF Exists(fs, dst_file)
                        THEN IF OnExisting = "return"
                             THEN /\ pc' = "create_kickstart_folder"
                                  /\ trace' = done
                                  /\ UNCHANGED <<fs, inode, data, effects,
                                                 rglob>>
                             ELSE /\ rglob' = Tail(rglob)
                                  /\ pc' = "for_updateinfo_path"
                                  /\ UNCHANGED <<fs, inode, data, effects,
                                                 trace>>
                        ELSE IF ~Exists(fs, repodata)
                        THEN \* shutil.copy into a missing directory raises
                             /\ pc' = OnRaise("create_kickstart_folder")
                             /\ UNCHANGED <<fs, inode, data, effects, trace,
                                            rglob>>
                        ELSE /\ fs' = AddFile(fs, dst_file)
                             /\ inode' = Create(inode, dst_file, copied)
                             /\ UNCHANGED rglob
                             /\ \E exit \in {"zero", "non-zero"} :
                                /\ effects' = effects \o
                                      <<copy, [kind |-> "modifyrepo_c",
                                               path |-> dst_file]>>
                                /\ IF exit = "zero" /\ Exists(fs, repomd)
                                   THEN \* the file is added to repomd.xml
                                        /\ data' =
                                             Write(Write(data, copied,
                                                         Text(copied)),
                                                   inode[repomd],
                                                   Appended(
                                                     data[inode[repomd]],
                                                     <<copied>>))
                                        /\ pc' = "create_kickstart_folder"
                                        /\ trace' = done
                                   ELSE \* check_call raises
                                        /\ data' = Write(data, copied,
                                                         Text(copied))
                                        /\ pc' =
                                            OnRaise("create_kickstart_folder")
                                        /\ UNCHANGED trace
    /\ UNCHANGED <<args, attempts, signer, http, files0, fs0, now, results,
                   results0, latest, locals, gen, processed, middle_fs,
                   composeinfo, rpms, images, docs0, repo_i>>

\* shutil.copytree(src, dst, copy_function=os.link): each file of the copy
\* is another name of the file it was copied from.
LinkedInodes(i, src, dst) ==
    [q \in DOMAIN i \cup {Rebase(m, src, dst) : m \in Under(i, src)} |->
        IF q \in DOMAIN i THEN i[q] ELSE i[Rebase(q, dst, src)]]

\* shutil.copytree(src, dst) with the default copy function: each file of
\* the copy is a new file with the content of the one it was copied from.
CopiedInodes(i, src, dst) ==
    [q \in DOMAIN i \cup {Rebase(m, src, dst) : m \in Under(i, src)} |->
        IF IsPrefix(dst, q) THEN <<"copy", q>> ELSE i[q]]

CopiedData(i, d, src, dst) ==
    [x \in DOMAIN d \cup {<<"copy", Rebase(m, src, dst)>> : m \in Under(i, src)}
        |-> IF x \in DOMAIN d THEN d[x]
            ELSE d[i[Rebase(x[2], dst, src)]]]

\* shutil.copytree(src, dst) onto a destination that does not exist
CopyTree(f, src, dst) ==
    LET copies == {Rebase(q, src, dst) : q \in Under(f, src)}
    IN  [q \in DOMAIN f \cup copies |->
            IF q \in DOMAIN f THEN f[q]
            ELSE f[src \o SubSeq(q, Len(dst) + 1, Len(q))]]

\* Lines 249-278
create_kickstart_folder ==
    /\ pc = "create_kickstart_folder"
    /\ fs0' = fs
    /\ files0' = [inode |-> inode, data |-> data]
    /\ LET src == <<CurrentRepo, args.arch, "os">>
           dst == <<CurrentRepo, args.arch, "kickstart">>
           linked == CopyTree(fs, src, dst)
           \* copy_function=os.link: the copy names the files of os
           links  == CopyTree(inode, src, dst)
           kept   == RmTree(links, dst \o <<"repodata">>)
           acts == Exists(fs, src) /\ ~Exists(fs, dst)
           \* rmtree(repodata_dst_path) raises when os has no repodata
           ok == ~acts \/ Exists(linked, dst \o <<"repodata">>)
           next == IF args.sign THEN "sign_repomd_xml"
                   ELSE "move_iso_and_its_artifacts_to_isos_arch_folder"
       IN  /\ fs' = IF ~acts THEN fs
                    ELSE IF ~ok THEN linked
                    ELSE CopyTree(RmTree(linked, dst \o <<"repodata">>),
                                  src \o <<"repodata">>,
                                  dst \o <<"repodata">>)
           /\ inode' = IF ~acts THEN inode
                       ELSE IF ~ok THEN links
                       ELSE CopiedInodes(kept, src \o <<"repodata">>,
                                         dst \o <<"repodata">>)
           /\ data' = IF acts /\ ok
                      THEN CopiedData(kept, data, src \o <<"repodata">>,
                                      dst \o <<"repodata">>)
                      ELSE data
           /\ pc' = IF ok THEN next ELSE OnRaise(next)
           /\ trace' = IF ok
                       THEN Append(trace,
                              Step("create_kickstart_folder", CurrentRepo))
                       ELSE trace
    /\ UNCHANGED <<args, effects, attempts, signer, http, rglob, now, results, results0, latest, locals, gen,
                   processed, middle_fs, composeinfo, rpms, images, docs0,
                   repo_i>>

\* The loop of lines 229-246 over the repositories of the arch only
OsRepomdPaths(repo, arch) ==
    << <<repo, arch, "os", "repodata", "repomd.xml">>,
       <<repo, arch, "kickstart", "repodata", "repomd.xml">> >>

\* Lines 203-234: the repomd.xml files of a repo, in signing order
RepomdPaths(repo, arch) ==
    << <<repo, arch, "os", "repodata", "repomd.xml">>,
       <<repo, arch, "kickstart", "repodata", "repomd.xml">>,
       <<repo>> \o PATH_DICTIONARY["source"] \o <<"repodata", "repomd.xml">>,
       <<repo>> \o Format(PATH_DICTIONARY["debug"], arch)
            \o <<"repodata", "repomd.xml">> >>

\* Line 101: file_path.with_suffix(file_path.suffix + '.asc')
AscPath(p) == SubSeq(p, 1, Len(p) - 1) \o <<FileName(p) \o ".asc">>

\* No file is being signed.
NoSigner ==
    [paths |-> <<>>, file |-> <<>>, sign_type |-> "", token |-> 0,
     gpg |-> "not run"]

\* The answers of the sign service: a success status or an error status
Responses == {"ok", "error"}

\* Lines 69 and 99: response.raise_for_status()
NeverRaises(response) == FALSE

RaisesForStatus(response) == response = "error"

\* Lines 237-241 and 352-356: each file gets a Signer of its own, whose
\* construction requests a token.
KeptSigner(sg) == IF sg.token = 0 THEN "Signer" ELSE "Signer_sign"

NewSigner(sg) == "Signer"

\* The token requests and the sign requests the service has answered
TokenRequests == {k \in DOMAIN http : http[k].url = "token"}

SignRequests == {k \in DOMAIN http : http[k].url = "sign"}

\* Line 70: the token of the response; the service issues a token per request
IssuedToken(log) == Len(log) + 1

\* Lines 100-101: the path Signer.sign writes the response to
SignaturePath(file, sign_type) ==
    IF sign_type = "detach-sign" THEN AscPath(file) ELSE file

\* The text the service answers with: a signature of its own for
\* detach-sign, the signed text between header and signature for clear-sign.
SignResponse(file, sign_type, c) ==
    IF sign_type = "detach-sign" THEN Text(<<"asc", file>>)
    ELSE [cfg |-> <<>>,
          text |-> << <<"signed-message", file>> >> \o c.text
                     \o << <<"signature", file>> >>]

\* Lines 193-228: sign_repomd_xml is entered with the four paths to sign.
sign_repomd_xml ==
    /\ pc = "sign_repomd_xml"
    /\ signer' = [NoSigner EXCEPT
                    !.paths = RepomdPaths(CurrentRepo, args.arch)]
    /\ pc' = "for_repomd_xml_path"
    /\ UNCHANGED <<args, effects, attempts, http, rglob, inode, data, files0, fs, fs0, now,
                   results, results0, latest, locals, gen, processed,
                   middle_fs, composeinfo, rpms, images, docs0, repo_i,
                   trace>>

\* Lines 229-236: the next path; one that does not exist is passed over.
for_repomd_xml_path ==
    /\ pc = "for_repomd_xml_path"
    /\ IF signer.paths = <<>>
       THEN /\ pc' = "move_iso_and_its_artifacts_to_isos_arch_folder"
            /\ signer' = NoSigner
            /\ trace' = Append(trace, Step("sign_repomd_xml", CurrentRepo))
            /\ UNCHANGED attempts
       ELSE /\ signer' = [signer EXCEPT !.paths = Tail(@),
                                        !.file = Head(signer.paths),
                                        !.sign_type = "detach-sign",
                                        !.gpg = "not run"]
            /\ pc' = IF Exists(fs, Head(signer.paths))
                     THEN NewSigner(signer) ELSE "for_repomd_xml_path"
            /\ attempts' = IF Exists(fs, Head(signer.paths))
                           THEN Append(attempts, Head(signer.paths))
                           ELSE attempts
            /\ UNCHANGED trace
    /\ UNCHANGED <<args, effects, http, rglob, inode, data, files0, fs, fs0, now,
                   results, results0, latest, locals, gen, processed,
                   middle_fs, composeinfo, rpms, images, docs0, repo_i>>

\* Lines 60-77: Signer(...) posts the credentials and keeps the token.
Signer_get_token ==
    /\ pc = "Signer"
    /\ \E response \in Responses :
        /\ http' = Append(http, [url |-> "token", status |-> response,
                                 token |-> IssuedToken(http), file |-> <<>>,
                                 sign_type |-> ""])
        /\ IF ~RaisesForStatus(response)
           THEN /\ signer' = [signer EXCEPT !.token = IssuedToken(http)]
                /\ pc' = "Signer_sign"
           ELSE /\ pc' = OnRaise("Signer_sign")
                /\ UNCHANGED signer
    /\ UNCHANGED <<args, effects, attempts, rglob, inode, data, files0, fs, fs0, now, results,
                   results0, latest, locals, gen, processed, middle_fs,
                   composeinfo, rpms, images, docs0, repo_i, trace>>

\* Lines 79-104: the file is posted with the token of this Signer; the
\* response is written only after raise_for_status.
Signer_sign ==
    /\ pc = "Signer_sign"
    /\ fs0' = fs
    /\ files0' = [inode |-> inode, data |-> data]
    /\ \E response \in Responses :
        /\ http' = Append(http, [url |-> "sign", status |-> response,
                                 token |-> signer.token,
                                 file |-> signer.file,
                                 sign_type |-> signer.sign_type,
                                 body |-> data[inode[signer.file]]])
        /\ IF ~RaisesForStatus(response)
           THEN LET out == SignaturePath(signer.file, signer.sign_type)
                    text == SignResponse(signer.file, signer.sign_type,
                                         data[inode[signer.file]])
                IN  /\ fs' = AddFile(fs, out)
                    /\ inode' = IF Exists(fs, out) THEN inode
                                ELSE Create(inode, out, <<"asc", out>>)
                    /\ data' = Write(data, inode'[out], text)
                    /\ pc' = "Signer_verify"
           ELSE /\ pc' = OnRaise("Signer_verify")
                /\ UNCHANGED <<fs, inode, data>>
    /\ UNCHANGED <<args, effects, attempts, signer, rglob, now, results, results0, latest,
                   locals, gen, processed, middle_fs, composeinfo, rpms,
                   images, docs0, repo_i, trace>>

\* subprocess.call in place of check_call: the exit status is not looked at
IgnoresExit(exit) == FALSE

\* Line 115: check_call raises CalledProcessError on a non-zero exit
RaisesOnExit(exit) == exit # "zero"

\* Lines 106-116: gpg --verify on what was written.  The caller then goes
\* on: line 229 or line 771.
Signer_verify ==
    /\ pc = "Signer_verify"
    /\ LET next == IF signer.sign_type = "detach-sign"
                   THEN "for_repomd_xml_path" ELSE "merge_middle_isos"
       IN  \E exit \in {"zero", "non-zero"} :
            IF RaisesOnExit(exit)
            THEN /\ pc' = OnRaise(next)
                 /\ signer' = [signer EXCEPT !.gpg = exit]
                 /\ UNCHANGED trace
            ELSE /\ pc' = next
                 /\ IF signer.sign_type = "detach-sign"
                    THEN /\ signer' = [signer EXCEPT !.gpg = exit]
                         /\ UNCHANGED trace
                    ELSE /\ signer' = NoSigner
                         /\ trace' = Append(trace, "sign_isos_checksum")
    /\ UNCHANGED <<args, effects, attempts, http, rglob, inode, data, files0, fs, fs0,
                   now, results, results0, latest, locals, gen, processed,
                   middle_fs, composeinfo, rpms, images, docs0, repo_i>>

\* src_iso_folder_path.glob(ext) for ext in ['*.iso', '*.manifest']
IsoArtifactNames ==
    UNION {{v \o "-1.iso", v \o "-1.iso.manifest"} :
            v \in {"BaseOS", "Minimal", "Extras"}}

\* Lines 514-559 on a source tree and a destination tree: the two trees
\* after the call.  Files whose name exists at the destination stay in the
\* iso directory, which is removed at the end.
MoveIso(src, dst, repo, arch) ==
    LET iso   == <<repo, arch, "iso">>
        isos  == <<"isos", arch>>
        made  == MakeDirs(dst, isos)
        names == {q[Len(q)] : q \in {c \in Children(src, iso) :
                                        c[Len(c)] \in IsoArtifactNames}}
        moved == {n \in names : ~Exists(made, isos \o <<n>>)}
        sum   == IF Exists(src, iso \o <<"CHECKSUM">>)
                 THEN {"CHECKSUM"} ELSE {}
        added == {isos \o <<n>> : n \in moved \cup sum}
    IN  IF ~Exists(src, iso) THEN [src |-> src, dst |-> made]
        ELSE [src |-> RmTree(src, iso),
              dst |-> [q \in DOMAIN made \cup added |->
                         IF q \in DOMAIN made THEN made[q] ELSE "file"]]

\* The files of the destination tree after the same call: a moved file keeps
\* its identity; CHECKSUM of the source is appended to the one of the
\* destination (open(dst_checksum_path, 'a+'), lines 555-558).
MoveIsoFiles(si, sd, di, dd, sf, df, repo, arch) ==
    LET iso   == <<repo, arch, "iso">>
        isos  == <<"isos", arch>>
        names == {q[Len(q)] : q \in {c \in Children(sf, iso) :
                                        c[Len(c)] \in IsoArtifactNames}}
        moved == {n \in names : ~Exists(MakeDirs(df, isos), isos \o <<n>>)}
        i1    == [q \in DOMAIN di \cup {isos \o <<n>> : n \in moved} |->
                    IF q \in DOMAIN di THEN di[q] ELSE si[iso \o <<q[3]>>]]
        d1    == [x \in DOMAIN dd \cup {si[iso \o <<n>>] : n \in moved} |->
                    IF x \in DOMAIN dd THEN dd[x] ELSE sd[x]]
        sum   == isos \o <<"CHECKSUM">>
        new   == <<"new", sum>>
        added == sd[si[iso \o <<"CHECKSUM">>]].text
    IN  IF ~Exists(sf, iso) THEN [inode |-> di, data |-> dd]
        ELSE IF ~Exists(sf, iso \o <<"CHECKSUM">>)
        THEN [inode |-> i1, data |-> d1]
        ELSE IF sum \in DOMAIN di
        THEN [inode |-> i1,
              data |-> Write(d1, di[sum], Appended(dd[di[sum]], added))]
        ELSE [inode |-> Create(i1, sum, new),
              data |-> Write(d1, new, [cfg |-> <<>>, text |-> added])]

\* Lines 726-731: the call inside the loop over args.repos; source and
\* destination are the same tree.
MoveIsoWithin(f, repo, arch) ==
    RmTree(MoveIso(f, f, repo, arch).dst, <<repo, arch, "iso">>)

\* Lines 529-530: the files the two globs yield, those of '*.iso' before
\* those of '*.manifest', each glob in the order of the directory scan.
IsoNames == {v \o "-1.iso" : v \in {"BaseOS", "Minimal", "Extras"}}

GlobOrders(f, dir, names) ==
    Orders({q \in Children(f, dir) : q[Len(q)] \in names})

IsoFolder == <<CurrentRepo, args.arch, "iso">>

IsosArchFolder == <<"isos", args.arch>>

\* The guard without the test of line 534: a file is renamed over the one
\* of its name in isos/<arch>.
SkipsMissingFile(f, src, dst) == ~Exists(f, src)

\* Lines 532-535: the two tests that pass over a file
SkipsFile(f, src, dst) == ~Exists(f, src) \/ Exists(f, dst)

\* Lines 521-528: the destination directory is made; without an iso
\* directory the function returns.
move_iso_and_its_artifacts_to_isos_arch_folder ==
    /\ pc = "move_iso_and_its_artifacts_to_isos_arch_folder"
    /\ fs' = MakeDirs(fs, IsosArchFolder)
    /\ fs0' = fs
    /\ files0' = [inode |-> inode, data |-> data]
    /\ IF Exists(fs, IsoFolder)
       THEN /\ \E isos \in GlobOrders(fs, IsoFolder, IsoNames) :
               \E manifests \in GlobOrders(fs, IsoFolder,
                                           IsoArtifactNames \ IsoNames) :
                    rglob' = isos \o manifests
            /\ pc' = "move_iso_file"
            /\ UNCHANGED trace
       ELSE /\ pc' = "update_treeinfo"
            /\ trace' = Append(trace,
                  Step("move_iso_and_its_artifacts_to_isos_arch_folder",
                       CurrentRepo))
            /\ UNCHANGED rglob
    /\ UNCHANGED <<args, effects, attempts, signer, http, inode, data, now, results,
                   results0, latest, locals, gen, processed, middle_fs,
                   composeinfo, rpms, images, docs0, repo_i>>

\* Lines 529-541: a file is renamed into isos/<arch> unless a file of its
\* name is there.
move_iso_file ==
    /\ pc = "move_iso_file"
    /\ IF rglob = <<>>
       THEN /\ pc' = "move_iso_checksum"
            /\ UNCHANGED <<rglob, fs, inode>>
       ELSE LET src == Head(rglob)
                dst == IsosArchFolder \o <<FileName(src)>>
            IN  /\ rglob' = Tail(rglob)
                /\ pc' = "move_iso_file"
                /\ IF SkipsFile(fs, src, dst)
                   THEN UNCHANGED <<fs, inode>>
                   ELSE /\ fs' = Rename(fs, src, dst)
                        /\ inode' = Rename(inode, src, dst)
    /\ UNCHANGED <<args, effects, attempts, signer, http, data, files0, fs0, now,
                   results, results0, latest, locals, gen, processed,
                   middle_fs, composeinfo, rpms, images, docs0, repo_i,
                   trace>>

\* Lines 542-558: CHECKSUM of the iso directory is appended to CHECKSUM of
\* isos/<arch>, which open(..., 'a+') creates when it is not there.
move_iso_checksum ==
    /\ pc = "move_iso_checksum"
    /\ pc' = "move_iso_rmtree"
    /\ LET src == IsoFolder \o <<"CHECKSUM">>
           dst == IsosArchFolder \o <<"CHECKSUM">>
           new == <<"new", dst>>
       IN  IF ~Exists(fs, src) THEN UNCHANGED <<fs, inode, data>>
           ELSE IF Exists(fs, dst)
           THEN /\ data' = Write(data, inode[dst],
                                 Appended(data[inode[dst]],
                                          data[inode[src]].text))
                /\ UNCHANGED <<fs, inode>>
           ELSE /\ fs' = AddFile(fs, dst)
                /\ inode' = Create(inode, dst, new)
                /\ data' = Write(data, new, [cfg |-> <<>>,
                                             text |-> data[inode[src]].text])
    /\ UNCHANGED <<args, effects, attempts, signer, http, rglob, files0, fs0, now,
                   results, results0, latest, locals, gen, processed,
                   middle_fs, composeinfo, rpms, images, docs0, repo_i,
                   trace>>

\* Line 559: rmtree(src_iso_folder_path)
move_iso_rmtree ==
    /\ pc = "move_iso_rmtree"
    /\ fs' = RmTree(fs, IsoFolder)
    /\ inode' = RmTree(inode, IsoFolder)
    /\ data' = Live(inode', data)
    /\ pc' = "update_treeinfo"
    /\ trace' = Append(trace,
                  Step("move_iso_and_its_artifacts_to_isos_arch_folder",
                       CurrentRepo))
    /\ UNCHANGED <<args, effects, attempts, signer, http, rglob, files0, fs0, now,
                   results, results0, latest, locals, gen, processed,
                   middle_fs, composeinfo, rpms, images, docs0, repo_i>>

\* Line 733: for path in Path(repo_path).rglob('.treeinfo'); the directory
\* scan yields the files in any order.
TreeInfoPaths(f, repo) == {p \in Files(f) : IsTreeInfo(p) /\ p[1] = repo}

update_treeinfo ==
    /\ pc = "update_treeinfo"
    /\ \E order \in [1..Cardinality(TreeInfoPaths(fs, CurrentRepo))
                        -> TreeInfoPaths(fs, CurrentRepo)] :
        /\ \A j, k \in DOMAIN order : j # k => order[j] # order[k]
        /\ rglob' = order
    /\ pc' = "for_treeinfo_path"
    /\ UNCHANGED <<args, effects, attempts, signer, http, inode, data, files0, fs0, now, results, results0,
                   latest, locals, gen, processed, middle_fs, fs, composeinfo,
                   rpms, images, docs0, repo_i, trace>>

\* Lines 733 and 738: the next path, after the one visited last
for_treeinfo_path ==
    /\ pc \in {"for_treeinfo_path", "treeinfo_visited", "treeinfo_rewritten"}
    /\ rglob' = IF pc = "for_treeinfo_path" THEN rglob ELSE Tail(rglob)
    /\ IF rglob' = <<>>
       THEN /\ pc' = "repo_loop"
            /\ trace' = Append(trace, Step("update_treeinfo", CurrentRepo))
       ELSE /\ pc' = "update_timestamp_in_treeinfo"
            /\ UNCHANGED trace
    /\ UNCHANGED <<args, effects, attempts, signer, http, inode, data, files0, fs0, now, results, results0,
                   latest, locals, gen, processed, middle_fs, fs, composeinfo,
                   rpms, images, docs0, repo_i>>

\* Lines 281-305 on the current path, with build_timestamp of line 682
update_timestamp_in_treeinfo ==
    /\ pc = "update_timestamp_in_treeinfo"
    /\ files0' = [inode |-> inode, data |-> data]
    /\ LET path == Head(rglob)
           next == IF path[Len(path) - 1] = "kickstart"
                   THEN "update_kickstart_treeinfo_file"
                   ELSE "treeinfo_visited"
       IN  IF ~Exists(fs, path)
           THEN /\ pc' = next
                /\ UNCHANGED data
           ELSE LET old == data[inode[path]]
                IN  IF {"general", "tree"} \subseteq DOMAIN old.cfg
                    THEN /\ data' = Write(data, inode[path],
                                         [old EXCEPT !.cfg =
                                            WithTimestamp(old.cfg, now)])
                         /\ pc' = next
                    ELSE \* ConfigParser.set raises NoSectionError
                         /\ pc' = OnRaise(next)
                         /\ UNCHANGED data
    /\ UNCHANGED <<args, effects, attempts, signer, http, rglob, inode, fs0, now, results, results0, latest,
                   locals, gen, processed, middle_fs, fs, composeinfo, rpms,
                   images, docs0, repo_i, trace>>

\* Lines 308-342 on the current path, which is in a kickstart directory
update_kickstart_treeinfo_file ==
    /\ pc = "update_kickstart_treeinfo_file"
    /\ files0' = [inode |-> inode, data |-> data]
    /\ LET path == Head(rglob)
           cfg  == IF Exists(fs, path) THEN data[inode[path]].cfg ELSE <<>>
           new  == RewrittenFile(inode, path)
       IN  IF /\ KickstartSection \in DOMAIN cfg
              /\ ~({"packages", "repository"}
                      \subseteq DOMAIN cfg[KickstartSection])
           THEN \* ConfigParser.get raises NoOptionError
                /\ pc' = OnRaise("treeinfo_rewritten")
                /\ UNCHANGED <<fs, inode, data>>
           ELSE IF ~Exists(fs, path)
           THEN \* os.remove raises FileNotFoundError
                /\ pc' = OnRaise("treeinfo_rewritten")
                /\ UNCHANGED <<fs, inode, data>>
           ELSE /\ inode' = Create(inode, path, new)
                /\ data' = Live(inode',
                                Write(data, new, [cfg |-> KickstartCfg(cfg),
                                                  text |-> <<new>>]))
                /\ pc' = "treeinfo_rewritten"
                /\ UNCHANGED fs
    /\ UNCHANGED <<args, effects, attempts, signer, http, rglob, fs0, now, results, results0, latest, locals,
                   gen, processed, middle_fs, composeinfo, rpms, images,
                   docs0, repo_i, trace>>

\* Lines 345-357, called when the three sign-service options are given: an
\* absent CHECKSUM is passed over, a present one goes to a Signer of its own
\* with sign_type='clear-sign'.
ChecksumPath == <<"isos", args.arch, "CHECKSUM">>

sign_isos_checksum ==
    /\ pc = "sign_isos_checksum"
    /\ IF Exists(fs, ChecksumPath)
       THEN /\ signer' = [NoSigner EXCEPT !.file = ChecksumPath,
                                          !.sign_type = "clear-sign"]
            /\ pc' = NewSigner(NoSigner)
            /\ attempts' = Append(attempts, ChecksumPath)
            /\ UNCHANGED trace
       ELSE /\ pc' = "merge_middle_isos"
            /\ trace' = Append(trace, "sign_isos_checksum")
            /\ UNCHANGED <<signer, attempts>>
    /\ UNCHANGED <<args, effects, http, rglob, inode, data, files0, fs, fs0, now,
                   results, results0, latest, locals, gen, processed,
                   middle_fs, composeinfo, rpms, images, docs0, repo_i>>

\* Lines 771-781: ISOs of the middle repos are taken from the compose tree of
\* the middle result directory.
MiddleInodes(f) == [q \in Files(f) |-> <<"middle", q>>]

MiddleData(f) == [x \in {<<"middle", q>> : q \in Files(f)} |-> Text(x)]

MergedMiddle(src, dst, i, d, a) ==
    LET RECURSIVE Merge(_, _)
        Merge(r, k) ==
            IF k > Len(a.middle_repos) THEN r
            ELSE LET m == MoveIso(r.src, r.dst, a.middle_repos[k], a.arch)
                     n == MoveIsoFiles(MiddleInodes(r.src), MiddleData(r.src),
                                       r.inode, r.data, r.src, r.dst,
                                       a.middle_repos[k], a.arch)
                 IN  Merge([src |-> m.src, dst |-> m.dst,
                            inode |-> n.inode, data |-> n.data], k + 1)
        start == [src |-> src, dst |-> dst, inode |-> i, data |-> d]
    IN  IF a.middle_given THEN Merge(start, 1) ELSE start

\* The calls of move_iso_and_its_artifacts_to_isos_arch_folder the loop makes
MergeCalls(a) ==
    IF a.middle_given
    THEN [i \in DOMAIN a.middle_repos |-> Step("merge_iso", a.middle_repos[i])]
    ELSE <<>>

merge_middle_isos ==
    /\ pc = "merge_middle_isos"
    /\ LET r == MergedMiddle(middle_fs, fs, inode, data, args)
       IN  /\ middle_fs' = r.src
           /\ fs' = r.dst
           /\ inode' = r.inode
           /\ data' = r.data
    /\ pc' = "remove_not_needed_repos"
    /\ trace' = Append(trace \o MergeCalls(args), "merge_middle_isos")
    /\ UNCHANGED <<args, effects, attempts, signer, http, rglob, files0, fs0, now, results, results0, latest, locals, gen,
                   processed, composeinfo, rpms, images, docs0, repo_i>>

\* Lines 782-790
WithoutRepos(f, repos) ==
    LET RECURSIVE Remove(_, _)
        Remove(g, i) == IF i > Len(repos) THEN g
                        ELSE Remove(RmTree(g, <<repos[i]>>), i + 1)
    IN  Remove(f, 1)

remove_not_needed_repos ==
    /\ pc = "remove_not_needed_repos"
    /\ fs' = WithoutRepos(fs, args.not_needed_repos)
    /\ inode' = WithoutRepos(inode, args.not_needed_repos)
    /\ data' = Live(inode', data)
    /\ pc' = "rename_latest_dir"
    /\ trace' = Append(trace, "remove_not_needed_repos")
    /\ UNCHANGED <<args, effects, attempts, signer, http, rglob, files0, fs0, now, results, results0, latest, locals, gen,
                   processed, middle_fs, composeinfo, rpms, images, docs0,
                   repo_i>>

(***************************************************************************)
(* Values of the variables an operation under study does not use.          *)
(***************************************************************************)
NoArgs ==
    [env_abs |-> TRUE, arch |-> "x86_64", repos |-> <<>>,
     middle_repos |-> <<>>, not_needed_repos |-> <<>>, sign |-> FALSE,
     middle_given |-> FALSE, platform |-> {}]

NoFs == [p \in {<<>>} |-> "dir"]

NoDocs == [composeinfo |-> <<>>, rpms |-> <<>>, images |-> <<>>]

(***************************************************************************)
(* SpecPromote: one call of rename_latest_dir on a pungi-results directory *)
(* holding the latest-* entry, in-progress, stable and already promoted    *)
(* directories.                                                            *)
(***************************************************************************)
LastCompose == <<"last_compose_dir">>

LastComposeOld == <<"last_compose_dir", "_old">>

StableFoo == <<"stable-", "foo">>

LatestA == <<"latest-", "A">>

LatestB == <<"latest-", "B">>

Elsewhere == << <<"other">> >>

Times == 1..MaxTime

DirNames ==
    {LastCompose, LastComposeOld, StableFoo}
        \cup {StampedName(t, LastCompose) : t \in Times}

DirEntry(n, c) == [kind |-> "dir", content |-> c, born |-> n]

\* Every way a link text can name the directory n: relative to the link,
\* absolute into pungi-results, or a directory of that name elsewhere.
LinkTexts(a, n) ==
    { [abs |-> FALSE, comps |-> <<n>>],
      [abs |-> TRUE, comps |-> AbsOf(PungiResultsPath(a)) \o <<n>>],
      [abs |-> TRUE, comps |-> Elsewhere \o <<n>>] }

DirSets == [DirNames -> {"absent", "empty", "tree"}]

DirsOf(choice) ==
    [n \in {m \in DirNames : choice[m] # "absent"} |-> DirEntry(n, choice[n])]

InitPromote ==
    /\ pc = "rename_latest_dir"
    /\ \E abs \in BOOLEAN : args = [NoArgs EXCEPT !.env_abs = abs]
    /\ now \in Times
    /\ latest = LatestA
    /\ \E choice \in DirSets :
        \E e \in {DirEntry(LatestA, "tree")}
                 \cup {[kind |-> "link", target |-> t] :
                        t \in UNION {LinkTexts(args, n) :
                            n \in {LastCompose, LastComposeOld, StableFoo}}} :
            results = PutEntry(DirsOf(choice), LatestA, e)
    /\ results0 = results
    /\ locals = NoLocals
    /\ gen = <<>>
    /\ processed = {}
    /\ middle_fs = <<>>
    /\ fs = NoFs
    /\ composeinfo = <<>>
    /\ rpms = <<>>
    /\ images = <<>>
    /\ docs0 = NoDocs
    /\ repo_i = 0
    /\ trace = <<>>
    /\ fs0 = fs
    /\ inode = OrigInodes(fs)
    /\ data = OrigData(inode)
    /\ files0 = [inode |-> inode, data |-> data]
    /\ rglob = <<>>
    /\ signer = NoSigner
    /\ http = <<>>
    /\ attempts = <<>>
    /\ effects = <<>>

NextPromote ==
    \/ RenameLatestDir_Rename
    \/ RenameLatestDir_Unlink
    \/ RenameLatestDir_Symlink

SpecPromote == InitPromote /\ [][NextPromote]_vars

HasTimestampPrefix(n) ==
    \E t \in Times : StartsWith(n, <<ToString(t), "-">>)

\* rename_latest_dir was called on a link and has returned.
Returned == pc = "done" /\ trace # <<>> /\ IsLink(results0, latest)

OldTarget == BaseName(results0[latest].target)

\* C3: the promotion swap is atomic: in every state during and after
\* rename_latest_dir the latest symlink exists and points to one existing
\* real directory, whose name carries a timestamp prefix once the promotion
\* has completed.
C3_AtomicSwap ==
    (/\ Resolves(args, results0, latest)
     /\ pc \in {"rl_unlink", "rl_symlink", "done"})
    => /\ Resolves(args, results, latest)
       /\ (pc = "done" /\ results # results0)
            => \A d \in DOMAIN results :
                 PointsTo(args, results, latest, d) => HasTimestampPrefix(d)

\* C4: when the link's target name begins with the in-progress prefix and
\* that directory exists in pungi-results, after rename_latest_dir returns
\* the directory is named <timestamp>-<original name>, no directory of the
\* original name remains, its contents are unchanged and the latest symlink
\* points at the renamed directory.
C4_PromoteContract ==
    (/\ Returned
     /\ InProgress(OldTarget)
     /\ PointsTo(args, results0, latest, OldTarget))
    => \E t \in Times :
         LET new == StampedName(t, OldTarget)
         IN  /\ IsDir(results, new)
             /\ results[new] = results0[OldTarget]
             /\ OldTarget \notin DOMAIN results
             /\ PointsTo(args, results, latest, new)

\* C5: rename_latest_dir renames only directories whose name starts with the
\* in-progress prefix; for a link whose target has any other name the call
\* completes without error and leaves the directory names and the link
\* unchanged.
C5_OtherNamesUntouched ==
    (/\ IsLink(results0, latest)
     /\ ~StartsWith(OldTarget, LAST_COMPOSE_PREFIX)
     /\ pc # "rename_latest_dir")
    => pc = "done" /\ results = results0

C5_Witness ==
    /\ Returned
    /\ OldTarget = StableFoo
    /\ PointsTo(args, results, latest, StableFoo)
    /\ results = results0

(***************************************************************************)
(* SpecManifest: move_json_metadata_to_arch_folder and the three rewriters *)
(* in the order of cli_main (lines 742-757), on documents drawn from       *)
(* bounded sets.  A document whose file is absent is empty.                *)
(***************************************************************************)
DocVariants == {"BaseOS", "Minimal"}

DocArchs == {"x86_64", "aarch64"}

Categories == {"binary", "debug", "source"}

ArtifactPaths ==
    { <<"BaseOS", "source", "tree", "Packages", "b", "bash-5.src.rpm">>,
      <<"BaseOS", "source", "tree", "Packages", "bash-5.src.rpm">>,
      <<"BaseOS", "x86_64", "debug", "tree", "Packages", "b",
        "bash-debuginfo-5.rpm">>,
      <<"bash-5.rpm">> }

PathTypes == DOMAIN PATH_DICTIONARY \cup {"os_tree", "isos"}

\* The path the compose tool records for a path-type.
OrigComposePath(v, pt, a) ==
    CASE pt \in {"source", "source_tree", "source_repository"}
            -> <<v, "source", "tree">>
      [] pt = "source_packages" -> <<v, "source", "tree", "Packages">>
      [] pt \in {"debug", "debug_tree", "debug_repository"}
            -> <<v, a, "debug", "tree">>
      [] pt = "debug_packages" -> <<v, a, "debug", "tree", "Packages">>
      [] pt = "isos" -> <<v, a, "iso">>
      [] OTHER -> <<v, a, "os">>

ImageName(v, i) == v \o "-" \o ToString(i) \o ".iso"

RpmsDoc(vs, as, cat, path) ==
    [v \in vs |-> [a \in as |->
        [s \in {"bash-5.src"} |->
            [r \in {"bash-5.src", "bash-5." \o a} |->
                IF r = "bash-5.src"
                THEN [path |-> path, category |-> cat, sigkey |-> "k1"]
                ELSE [path |-> <<v, a, "os", "Packages", "b", "bash-5.rpm">>,
                      category |-> "binary", sigkey |-> "k1"]]]]]

ComposeInfoDoc(vs, as, pts) ==
    [v \in vs |->
        [id |-> v,
         paths |-> [pt \in pts |-> [a \in as |-> OrigComposePath(v, pt, a)]]]]

ImagesDoc(vs, as, n) ==
    [v \in vs |-> [a \in as |->
        [i \in 1..n |->
            [path |-> <<v, a, "iso", ImageName(v, i)>>,
             type |-> "dvd", size |-> i]]]]

MetadataFs(present) ==
    [q \in {<<>>, MetadataPath} \cup {MetadataPath \o <<n>> : n \in present}
        |-> IF Len(q) = 2 THEN "file" ELSE "dir"]

InitManifest ==
    /\ pc = "move_json_metadata_to_arch_folder"
    /\ \E nn \in {<<>>, <<"Minimal">>} :
         args = [NoArgs EXCEPT !.not_needed_repos = nn]
    /\ \E present \in {{"composeinfo.json", "rpms.json", "images.json"} \ m :
                        m \in {{}, {"composeinfo.json"}, {"rpms.json"},
                               {"images.json"}}} :
       \E vs \in SUBSET DocVariants \ {{}} :
       \E as \in SUBSET DocArchs \ {{}} :
        /\ fs = MetadataFs(present)
        /\ \E pt \in PathTypes :
             composeinfo =
                IF "composeinfo.json" \in present
                THEN ComposeInfoDoc(vs, as, {pt, "os_tree"}) ELSE <<>>
        /\ \E cat \in Categories : \E path \in ArtifactPaths :
             rpms = IF "rpms.json" \in present
                    THEN RpmsDoc(vs, as, cat, path) ELSE <<>>
        /\ \E n \in 0..MaxImages :
             images = IF "images.json" \in present
                      THEN ImagesDoc(vs, as, n) ELSE <<>>
    /\ docs0 = [composeinfo |-> composeinfo, rpms |-> rpms, images |-> images]
    /\ now = 1
    /\ results = <<>>
    /\ results0 = <<>>
    /\ latest = LatestA
    /\ locals = NoLocals
    /\ gen = <<>>
    /\ processed = {}
    /\ middle_fs = <<>>
    /\ repo_i = 0
    /\ trace = <<>>
    /\ fs0 = fs
    /\ inode = OrigInodes(fs)
    /\ data = OrigData(inode)
    /\ files0 = [inode |-> inode, data |-> data]
    /\ rglob = <<>>
    /\ signer = NoSigner
    /\ http = <<>>
    /\ attempts = <<>>
    /\ effects = <<>>

NextManifest ==
    \/ move_json_metadata_to_arch_folder
    \/ post_processing_compose_info_json_metadata
    \/ post_processing_rpms_json_metadata
    \/ post_processing_images_json_metadata

SpecManifest == InitManifest /\ [][NextManifest]_vars

Did(step) == \E i \in DOMAIN trace : trace[i] = step

\* <variant>/<mapped subpath>/<parent directory name>/<file name>
ExpectedArtifactPath(v, a, category, orig) ==
    <<v>> \o Format(PATH_DICTIONARY[category], a)
        \o (IF Len(orig) >= 2 THEN <<orig[Len(orig) - 1]>> ELSE <<>>)
        \o <<orig[Len(orig)]>>

\* A variant the command line designates as not needed.
NotNeeded(v) ==
    \E i \in DOMAIN args.not_needed_repos : args.not_needed_repos[i] = v

\* C8: every artifact entry of rpms.json whose category has a canonical
\* mapping has, after post_processing_rpms_json_metadata, the path
\* <variant>/<mapped subpath>/<parent directory name>/<file name>.  Entries
\* of variants designated not needed are deleted and are not covered.
C8_EveryMappedArtifact ==
    Did("post_processing_rpms_json_metadata") =>
        \A v \in {w \in DOMAIN docs0.rpms : ~NotNeeded(w)} :
        \A a \in DOMAIN docs0.rpms[v] :
        \A s \in DOMAIN docs0.rpms[v][a] :
        \A r \in DOMAIN docs0.rpms[v][a][s] :
            LET art == docs0.rpms[v][a][s][r]
            IN  HasMapping(art.category) =>
                    /\ v \in DOMAIN rpms
                    /\ rpms[v][a][s][r].path =
                         ExpectedArtifactPath(v, a, art.category, art.path)

\* The rule of the rpms rewriter on the variants it keeps: the entries of the
\* variant Minimal are deleted; every artifact entry of any other variant is
\* kept, and when its category has a canonical mapping its path is
\* <variant>/<mapped subpath>/<parent directory name>/<file name> (no parent
\* component for a path without a directory).
RpmsRuleOnKeptVariants ==
    Did("post_processing_rpms_json_metadata") =>
        /\ DOMAIN rpms = DOMAIN docs0.rpms \ {"Minimal"}
        /\ \A v \in DOMAIN rpms :
             /\ DOMAIN rpms[v] = DOMAIN docs0.rpms[v]
             /\ \A a \in DOMAIN rpms[v] :
                  /\ DOMAIN rpms[v][a] = DOMAIN docs0.rpms[v][a]
                  /\ \A s \in DOMAIN rpms[v][a] :
                       /\ DOMAIN rpms[v][a][s] = DOMAIN docs0.rpms[v][a][s]
                       /\ \A r \in DOMAIN rpms[v][a][s] :
                            LET art == docs0.rpms[v][a][s][r]
                            IN  HasMapping(art.category) =>
                                  rpms[v][a][s][r].path =
                                    ExpectedArtifactPath(v, a, art.category,
                                                         art.path)

\* C9: in composeinfo.json, for every variant, path-type and architecture a
\* mapped path-type becomes <variant>/<canonical subpath> and any other entry
\* is left exactly as it was; an rpms.json artifact of an unrecognised
\* category keeps its path; no error is raised.  Entries of variants
\* designated not needed are deleted and are not covered.
C9_EveryVariantEntry ==
    /\ pc # "raised"
    /\ Did("post_processing_compose_info_json_metadata") =>
         \A v \in {w \in DOMAIN docs0.composeinfo : ~NotNeeded(w)} :
         \A pt \in DOMAIN docs0.composeinfo[v].paths :
         \A a \in DOMAIN docs0.composeinfo[v].paths[pt] :
            /\ v \in DOMAIN composeinfo
            /\ composeinfo[v].paths[pt][a] =
                 IF HasMapping(pt)
                 THEN <<v>> \o Format(PATH_DICTIONARY[pt], a)
                 ELSE docs0.composeinfo[v].paths[pt][a]
    /\ Did("post_processing_rpms_json_metadata") =>
         \A v \in {w \in DOMAIN docs0.rpms : ~NotNeeded(w)} :
         \A a \in DOMAIN docs0.rpms[v] :
         \A s \in DOMAIN docs0.rpms[v][a] :
         \A r \in DOMAIN docs0.rpms[v][a][s] :
            ~HasMapping(docs0.rpms[v][a][s][r].category) =>
                /\ v \in DOMAIN rpms
                /\ rpms[v][a][s][r] = docs0.rpms[v][a][s][r]

\* The rule of the composeinfo rewriter on the variants it keeps: the same for
\* every variant other than Minimal, whose entries both rewriters delete;
\* every other variant keeps all its path-types and architectures.
ComposeInfoRuleOnKeptVariants ==
    /\ pc # "raised"
    /\ Did("post_processing_compose_info_json_metadata") =>
         /\ DOMAIN composeinfo = DOMAIN docs0.composeinfo \ {"Minimal"}
         /\ \A v \in DOMAIN composeinfo :
              /\ DOMAIN composeinfo[v].paths
                    = DOMAIN docs0.composeinfo[v].paths
              /\ composeinfo[v].id = docs0.composeinfo[v].id
              /\ \A pt \in DOMAIN composeinfo[v].paths :
                   /\ DOMAIN composeinfo[v].paths[pt]
                        = DOMAIN docs0.composeinfo[v].paths[pt]
                   /\ \A a \in DOMAIN composeinfo[v].paths[pt] :
                        composeinfo[v].paths[pt][a] =
                          IF HasMapping(pt)
                          THEN <<v>> \o Format(PATH_DICTIONARY[pt], a)
                          ELSE docs0.composeinfo[v].paths[pt][a]
    /\ Did("post_processing_rpms_json_metadata") =>
         \A v \in DOMAIN docs0.rpms \ {"Minimal"} :
         \A a \in DOMAIN docs0.rpms[v] :
         \A s \in DOMAIN docs0.rpms[v][a] :
         \A r \in DOMAIN docs0.rpms[v][a][s] :
            ~HasMapping(docs0.rpms[v][a][s][r].category) =>
                /\ v \in DOMAIN rpms
                /\ rpms[v][a][s][r] = docs0.rpms[v][a][s][r]

\* C10: after post_processing_images_json_metadata, for every variant,
\* architecture key and image entry the path is isos/<arch>/<basename of the
\* original path> and every other field of the entry is unchanged.
C10_ImagePaths ==
    Did("post_processing_images_json_metadata") =>
        /\ DOMAIN images = DOMAIN docs0.images
        /\ \A v \in DOMAIN images :
             /\ DOMAIN images[v] = DOMAIN docs0.images[v]
             /\ \A a \in DOMAIN images[v] :
                  /\ DOMAIN images[v][a] = DOMAIN docs0.images[v][a]
                  /\ \A i \in DOMAIN images[v][a] :
                       LET orig == docs0.images[v][a][i]
                       IN  images[v][a][i] =
                             [orig EXCEPT !.path =
                                <<"isos", a, orig.path[Len(orig.path)]>>]

C10_Witness ==
    /\ Did("post_processing_images_json_metadata")
    /\ "Minimal" \in DOMAIN images
    /\ "aarch64" \in DOMAIN images["Minimal"]
    /\ Len(images["Minimal"]["aarch64"]) = MaxImages
    /\ images["Minimal"]["aarch64"][1] =
         [path |-> <<"isos", "aarch64", "Minimal-1.iso">>,
          type |-> "dvd", size |-> 1]

(***************************************************************************)
(* SpecBody: the body of cli_main's loop for one latest-* result, from     *)
(* line 681 to the return of rename_latest_dir.  The compose tree holds    *)
(* BaseOS and a second variant; the manifests describe the tree as the     *)
(* compose tool left it.                                                   *)
(***************************************************************************)
Parts == {"source", "debug", "os", "iso"}

\* The shapes of BaseOS, and whether the second variant is in the tree.
TreeShapes ==
    {[base |-> Parts, present |-> TRUE], [base |-> Parts, present |-> FALSE],
     [base |-> {"os"}, present |-> TRUE], [base |-> {}, present |-> TRUE]}

\* The role of the second variant and the state of --middle-result-directory.
RoleChoices ==
    {[role |-> "plain", mid |-> "none"], [role |-> "not_needed", mid |-> "none"],
     [role |-> "middle", mid |-> "none"], [role |-> "middle", mid |-> "missing"],
     [role |-> "middle", mid |-> "tree"],
     [role |-> "middle, not in --repos", mid |-> "tree"]}

\* How --env-path is spelled and where the latest-* link points.
LinkChoices ==
    {[abs |-> TRUE, target |-> LastCompose],
     [abs |-> FALSE, target |-> LastCompose],
     [abs |-> TRUE, target |-> StableFoo]}

Pkg(sharded, name) == IF sharded THEN <<"Packages", "b", name>>
                      ELSE <<"Packages", name>>

\* The files of a variant as the compose tool lays them out.
VariantFiles(v, a, shape, sharded) ==
    (IF "source" \in shape
     THEN {<<v, "source", "tree">> \o Pkg(sharded, "bash-5.src.rpm"),
           <<v, "source", "tree", "repodata", "repomd.xml">>}
     ELSE {})
    \cup (IF "debug" \in shape
          THEN {<<v, a, "debug", "tree">>
                    \o Pkg(sharded, "bash-debuginfo-5.rpm"),
                <<v, a, "debug", "tree", "repodata", "repomd.xml">>}
          ELSE {})
    \cup (IF "os" \in shape
          THEN {<<v, a, "os">> \o Pkg(sharded, "bash-5.rpm"),
                <<v, a, "os", "repodata", "repomd.xml">>,
                <<v, a, "os", ".treeinfo">>}
          ELSE {})
    \cup (IF "iso" \in shape
          THEN {<<v, a, "iso", v \o "-1.iso">>,
                <<v, a, "iso", v \o "-1.iso.manifest">>,
                <<v, a, "iso", "CHECKSUM">>}
          ELSE {})

\* The tree holding the given files and directories and all their parents.
TreeOf(files, dirs) ==
    LET all == UNION {{SubSeq(q, 1, i) : i \in 0..Len(q)} :
                        q \in files \cup dirs}
    IN  [q \in all |-> IF q \in files THEN "file" ELSE "dir"]

ComposePathTypes(shape) ==
    (IF "os" \in shape THEN {"os_tree"} ELSE {})
    \cup (IF "source" \in shape THEN {"source_tree", "source_packages"}
          ELSE {})
    \cup (IF "debug" \in shape THEN {"debug_tree", "debug_packages"} ELSE {})
    \cup (IF "iso" \in shape THEN {"isos"} ELSE {})

ArtifactsOf(v, a, shape, sharded) ==
    LET names == (IF "source" \in shape THEN {"bash-5.src"} ELSE {})
                 \cup (IF "os" \in shape THEN {"bash-5." \o a} ELSE {})
                 \cup (IF "debug" \in shape THEN {"bash-debuginfo-5." \o a}
                       ELSE {})
    IN  [r \in names |->
            IF r = "bash-5.src"
            THEN [path |-> <<v, "source", "tree">>
                              \o Pkg(sharded, "bash-5.src.rpm"),
                  category |-> "source", sigkey |-> "k1"]
            ELSE IF r = "bash-5." \o a
            THEN [path |-> <<v, a, "os">> \o Pkg(sharded, "bash-5.rpm"),
                  category |-> "binary", sigkey |-> "k1"]
            ELSE [path |-> <<v, a, "debug", "tree">>
                              \o Pkg(sharded, "bash-debuginfo-5.rpm"),
                  category |-> "debug", sigkey |-> "k1"]]

InitBody ==
    /\ pc = "loop_body"
    /\ \E second \in {"Minimal", "Extras"} :
       \E rc \in RoleChoices, ts \in TreeShapes, lc \in LinkChoices :
       \E sign \in BOOLEAN, sharded \in BOOLEAN :
       \E platform \in {{}, {PlatformRepodata("BaseOS", "x86_64")
                                \o <<"updateinfo.xml">>}} :
        LET a == "x86_64"
            role == rc.role
            mid == rc.mid
            base == ts.base
            present == ts.present
            abs == lc.abs
            shape == [v \in {"BaseOS", second} |->
                        IF v = "BaseOS" THEN base ELSE Parts]
            vs == IF present THEN {"BaseOS", second} ELSE {"BaseOS"}
            json == {MetadataPath \o <<n>> :
                        n \in {"composeinfo.json", "rpms.json", "images.json"}}
        IN  /\ args = [env_abs |-> abs, arch |-> a,
                       repos |-> IF role = "middle, not in --repos"
                                 THEN <<"BaseOS">>
                                 ELSE <<"BaseOS", second>>,
                       middle_repos |->
                            IF role \in {"middle", "middle, not in --repos"}
                            THEN <<second>> ELSE <<>>,
                       not_needed_repos |->
                            IF role = "not_needed" THEN <<second>> ELSE <<>>,
                       sign |-> sign,
                       middle_given |-> mid # "none",
                       platform |-> platform]
            /\ fs = TreeOf(json \cup UNION {VariantFiles(v, a, shape[v],
                                                        sharded) : v \in vs},
                           {<<v>> : v \in vs})
            /\ middle_fs =
                 IF mid = "tree"
                 THEN TreeOf(VariantFiles(second, a, {"iso"}, sharded), {})
                 ELSE <<>>
            /\ composeinfo = [v \in vs |->
                 [id |-> v,
                  paths |-> [pt \in ComposePathTypes(shape[v]) |->
                               [x \in {a} |-> OrigComposePath(v, pt, x)]]]]
            /\ rpms = [v \in vs |-> [x \in {a} |->
                 [s \in {"bash-5.src"} |->
                    ArtifactsOf(v, x, shape[v], sharded)]]]
            /\ images = [v \in vs |-> [x \in {a} |->
                 IF "iso" \in shape[v]
                 THEN <<[path |-> <<v, x, "iso", v \o "-1.iso">>,
                         type |-> "dvd", size |-> 1]>>
                 ELSE <<>>]]
            /\ results = PutEntry(DirsOf([m \in DirNames |->
                                 IF m = lc.target THEN "tree" ELSE "absent"]),
                            LatestA,
                            [kind |-> "link",
                             target |-> [abs |-> FALSE,
                                         comps |-> <<lc.target>>]])
    /\ docs0 = [composeinfo |-> composeinfo, rpms |-> rpms, images |-> images]
    /\ now \in Times
    /\ latest = LatestA
    /\ results0 = results
    /\ locals = NoLocals
    /\ gen = <<>>
    /\ processed = {}
    /\ repo_i = 0
    /\ trace = <<>>
    /\ fs0 = fs
    /\ inode = OrigInodes(fs)
    /\ data = OrigData(inode)
    /\ files0 = [inode |-> inode, data |-> data]
    /\ rglob = <<>>
    /\ signer = NoSigner
    /\ http = <<>>
    /\ attempts = <<>>
    /\ effects = <<>>

NextBody ==
    \/ LoopBodyStart
    \/ RepoLoopHead
    \/ move_sources_folder_to_right_place
    \/ move_sources_rmtree
    \/ move_debug_folder_to_right_place
    \/ move_debug_rename
    \/ move_debug_rmtree
    \/ copy_updateinfo_from_platform_repos
    \/ for_updateinfo_path
    \/ create_kickstart_folder
    \/ sign_repomd_xml
    \/ for_repomd_xml_path
    \/ Signer_get_token
    \/ Signer_sign
    \/ Signer_verify
    \/ move_iso_and_its_artifacts_to_isos_arch_folder
    \/ move_iso_file
    \/ move_iso_checksum
    \/ move_iso_rmtree
    \/ update_treeinfo
    \/ for_treeinfo_path
    \/ update_timestamp_in_treeinfo
    \/ update_kickstart_treeinfo_file
    \/ move_json_metadata_to_arch_folder
    \/ post_processing_compose_info_json_metadata
    \/ post_processing_rpms_json_metadata
    \/ post_processing_images_json_metadata
    \/ sign_isos_checksum
    \/ merge_middle_isos
    \/ remove_not_needed_repos
    \/ RenameLatestDir_Rename
    \/ RenameLatestDir_Unlink
    \/ RenameLatestDir_Symlink

SpecBody == InitBody /\ [][NextBody]_vars

PerRepoSteps ==
    {"move_sources_folder_to_right_place", "move_debug_folder_to_right_place",
     "copy_updateinfo_from_platform_repos", "create_kickstart_folder",
     "move_iso_and_its_artifacts_to_isos_arch_folder", "update_treeinfo"}
    \cup (IF args.sign THEN {"sign_repomd_xml"} ELSE {})

PostSteps ==
    {"move_json_metadata_to_arch_folder",
     "post_processing_compose_info_json_metadata",
     "post_processing_rpms_json_metadata",
     "post_processing_images_json_metadata",
     "merge_middle_isos", "remove_not_needed_repos"}
    \cup (IF args.sign THEN {"sign_isos_checksum"} ELSE {})

\* Every step before rename_latest_dir has completed without error, for
\* every repo that is not skipped or stripped.
EarlierStepsCompleted ==
    /\ \A i \in DOMAIN args.repos :
         \/ Did(Step("skip", args.repos[i]))
         \/ Did(Step("strip", args.repos[i]))
         \/ \A s \in PerRepoSteps : Did(Step(s, args.repos[i]))
    /\ \A s \in PostSteps : Did(s)

\* C1: within the processing of one result, rename_latest_dir runs only
\* after every earlier step has completed without error; once a step has
\* raised nothing more runs, the real directory is not renamed and the
\* latest symlink is not repointed.
C1_PromotionLast ==
    /\ [](/\ Did("rename_latest_dir") => EarlierStepsCompleted
          /\ results # results0 => Did("rename_latest_dir")
          /\ (pc = "raised" /\ ~Did("rename_latest_dir"))
                => results = results0)
    /\ [][pc = "raised" => UNCHANGED vars]_vars

C1_Witness ==
    /\ pc = "done"
    /\ args.sign
    /\ PointsTo(args, results, latest, StampedName(now, LastCompose))
    /\ \A i \in DOMAIN args.repos :
         \A s \in PerRepoSteps : Did(Step(s, args.repos[i]))

\* Every path the three manifests hold.
ManifestPaths ==
    UNION {UNION {{composeinfo[v].paths[pt][a] :
                        a \in DOMAIN composeinfo[v].paths[pt]} :
                    pt \in DOMAIN composeinfo[v].paths} :
            v \in DOMAIN composeinfo}
    \cup UNION {UNION {UNION {{rpms[v][a][s][r].path :
                                r \in DOMAIN rpms[v][a][s]} :
                            s \in DOMAIN rpms[v][a]} :
                    a \in DOMAIN rpms[v]} :
            v \in DOMAIN rpms}
    \cup UNION {UNION {{images[v][a][i].path : i \in DOMAIN images[v][a]} :
                    a \in DOMAIN images[v]} :
            v \in DOMAIN images}

\* C6: at the end of a result's processing every path that survives in
\* composeinfo.json, rpms.json and images.json resolves, relative to the
\* compose root, to a file or directory of the reorganised tree.
C6_ManifestPathsResolve ==
    pc = "done" => \A p \in ManifestPaths : Exists(fs, p)

\* C7: after a full run of a result's processing, for every variant named in
\* the not-needed repos list the filesystem subtree does not exist and no
\* entry keyed by that variant exists in composeinfo.json, rpms.json or
\* images.json.
C7_NotNeededGone ==
    pc = "done" =>
        \A v \in {w \in DOMAIN docs0.composeinfo \cup {"Minimal", "Extras"} :
                    NotNeeded(w)} :
            /\ ~Exists(fs, <<v>>)
            /\ v \notin DOMAIN composeinfo
            /\ v \notin DOMAIN rpms
            /\ v \notin DOMAIN images

(***************************************************************************)
(* Spec: cli_main from its first statement to its return.  The glob of     *)
(* line 674 is a generator: gen holds the entries it has still to yield.   *)
(* The body of the for loop is the behaviour of NextBody, entered at       *)
(* pc = "loop_body" and left at pc = "done".                               *)
(***************************************************************************)
Matches(r) == {n \in DOMAIN r : StartsWith(n, LATEST_GLOB_PREFIX)}

\* Line 674: latest_result_paths = pungi_results.glob('latest-*')
glob_latest_results ==
    /\ pc = "glob"
    /\ gen' \in Orders(Matches(results))
    /\ pc' = "log"
    /\ UNCHANGED <<args, effects, attempts, signer, http, rglob, inode, data, files0, fs0, now, results, results0, latest, locals, processed,
                   middle_fs, fs, composeinfo, rpms, images, docs0, repo_i,
                   trace>>

\* Lines 675-678: logging.info(..., list(latest_result_paths)); list() draws
\* every entry the generator has left.
log_latest_results ==
    /\ pc = "log"
    /\ gen' = <<>>
    /\ pc' = "for"
    /\ trace' = Append(trace, "log")
    /\ UNCHANGED <<args, effects, attempts, signer, http, rglob, inode, data, files0, fs0, now, results, results0, latest, locals, processed,
                   middle_fs, fs, composeinfo, rpms, images, docs0, repo_i>>

\* Lines 680-681: for latest_path in latest_result_paths.  The body works
\* below <entry>/compose: on the compose tree when the entry names a
\* directory of pungi-results, on nothing when the link dangles.
for_latest_path ==
    /\ pc \in {"for", "done"}
    /\ IF gen = <<>>
       THEN /\ pc' = "rmtree_middle_result_directory"
            /\ UNCHANGED <<gen, latest, processed, fs, inode, data>>
       ELSE /\ latest' = Head(gen)
            /\ gen' = Tail(gen)
            /\ processed' = processed \cup {Head(gen)}
            /\ pc' = "loop_body"
            /\ IF Resolves(args, results, Head(gen))
               THEN UNCHANGED <<fs, inode, data>>
               ELSE /\ fs' = <<>>
                    /\ inode' = <<>>
                    /\ data' = <<>>
    /\ UNCHANGED <<args, effects, attempts, signer, http, rglob, files0, fs0, now, results, results0, locals, middle_fs,
                   composeinfo, rpms, images, docs0, repo_i, trace>>

\* Lines 792-794
rmtree_middle_result_directory ==
    /\ pc = "rmtree_middle_result_directory"
    /\ middle_fs' = IF args.middle_given THEN <<>> ELSE middle_fs
    /\ pc' = "exit"
    /\ UNCHANGED <<args, effects, attempts, signer, http, rglob, inode, data, files0, fs0, now, results, results0, latest, locals, gen,
                   processed, fs, composeinfo, rpms, images, docs0, repo_i,
                   trace>>

Init ==
    /\ pc = "glob"
    /\ \E abs \in BOOLEAN, mid \in {"none", "missing", "tree"} :
        /\ args = [NoArgs EXCEPT !.env_abs = abs,
                                 !.repos = <<"BaseOS">>,
                                 !.middle_repos =
                                    IF mid = "none" THEN <<>>
                                    ELSE <<"Minimal">>,
                                 !.middle_given = mid # "none"]
        /\ middle_fs = IF mid = "tree"
                       THEN TreeOf(VariantFiles("Minimal", args.arch,
                                                {"iso"}, FALSE), {})
                       ELSE <<>>
    /\ now \in Times
    /\ \E links \in SUBSET {LatestA, LatestB} :
       \E dirs \in SUBSET {LastCompose, StableFoo} :
        results =
            [n \in links \cup dirs |->
                IF n \in dirs THEN DirEntry(n, "tree")
                ELSE [kind |-> "link",
                      target |-> [abs |-> FALSE,
                                  comps |-> <<IF n = LatestA THEN LastCompose
                                              ELSE StableFoo>>]]]
    /\ results0 = results
    /\ latest = <<>>
    /\ locals = NoLocals
    /\ gen = <<>>
    /\ processed = {}
    /\ fs = TreeOf(VariantFiles("BaseOS", args.arch, Parts, FALSE), {})
    /\ composeinfo = <<>>
    /\ rpms = <<>>
    /\ images = <<>>
    /\ docs0 = NoDocs
    /\ repo_i = 0
    /\ trace = <<>>
    /\ fs0 = fs
    /\ inode = OrigInodes(fs)
    /\ data = OrigData(inode)
    /\ files0 = [inode |-> inode, data |-> data]
    /\ rglob = <<>>
    /\ signer = NoSigner
    /\ http = <<>>
    /\ attempts = <<>>
    /\ effects = <<>>

Next ==
    \/ glob_latest_results
    \/ log_latest_results
    \/ for_latest_path
    \/ rmtree_middle_result_directory

Spec == Init /\ [][Next]_vars

\* C2: cli_main applies the per-result processing body to every entry of
\* pungi-results whose name matches latest-*: when cli_main returns, the
\* loop body has been entered for each entry that matched at the start.
C2_EveryLatestProcessed ==
    pc = "exit" => \A n \in Matches(results0) : n \in processed

\* The variants a compose may hold.
Variants == {"BaseOS", "Minimal", "Extras"}

RewriterSteps ==
    {"post_processing_compose_info_json_metadata",
     "post_processing_rpms_json_metadata",
     "post_processing_images_json_metadata"}

\* The completed calls that change the layout of the tree.
LayoutSteps ==
    {Step(s, v) : s \in {"move_sources_folder_to_right_place",
                         "move_debug_folder_to_right_place",
                         "create_kickstart_folder",
                         "move_iso_and_its_artifacts_to_isos_arch_folder",
                         "merge_iso"},
                  v \in Variants}

\* C11: within the processing of one result, no call that reorganises the
\* tree, mirrors os into kickstart or collects ISOs (the merge of ISOs from
\* the middle result included) is made after a manifest rewriter has run.
C11_NoLayoutStepAfterRewrite ==
    \A i, j \in DOMAIN trace :
        (i < j /\ trace[i] \in RewriterSteps) => trace[j] \notin LayoutSteps

(***************************************************************************)
(* SpecReorg: move_sources_folder_to_right_place followed by               *)
(* move_debug_folder_to_right_place on one variant, as cli_main calls them *)
(* (lines 692-700).  The process may be killed between two filesystem      *)
(* calls of a function, and the two functions may be run again.            *)
(***************************************************************************)
MaxReruns == 2

Reruns == Cardinality({i \in DOMAIN trace : trace[i] = "rerun"})

MidCall == {"move_sources_rmtree", "move_debug_rename", "move_debug_rmtree"}

\* The process is killed between two filesystem calls.
Interrupt ==
    /\ pc \in MidCall
    /\ pc' = "interrupted"
    /\ trace' = Append(trace, "interrupted")
    /\ UNCHANGED <<args, effects, attempts, signer, http, rglob, inode, data, files0, fs0, now, results, results0, latest, locals, gen,
                   processed, middle_fs, fs, composeinfo, rpms, images, docs0,
                   repo_i>>

\* Lines 692-700 are run again on the tree as it is.
Rerun ==
    /\ pc \in {"interrupted", "copy_updateinfo_from_platform_repos"}
    /\ Reruns < MaxReruns
    /\ pc' = "move_sources_folder_to_right_place"
    /\ trace' = Append(trace, "rerun")
    /\ UNCHANGED <<args, effects, attempts, signer, http, rglob, inode, data, files0, fs0, now, results, results0, latest, locals, gen,
                   processed, middle_fs, fs, composeinfo, rpms, images, docs0,
                   repo_i>>

\* What is at the destination of a rename before the call.
DstChoices == {"absent", "parent", "empty"}

InitReorg ==
    /\ pc = "move_sources_folder_to_right_place"
    /\ args = [NoArgs EXCEPT !.repos = <<"BaseOS">>]
    /\ repo_i = 1
    /\ \E shape \in SUBSET {"source", "debug", "os"} :
       \E sharded \in BOOLEAN, other \in BOOLEAN :
       \E source_dst \in {"absent", "empty"}, debug_dst \in DstChoices :
        LET v == "BaseOS"
            a == args.arch
            dirs == {<<v>>}
                    \cup (IF source_dst = "empty" THEN {<<v, "Source">>}
                          ELSE {})
                    \cup (IF debug_dst = "parent" THEN {<<v, "debug">>}
                          ELSE IF debug_dst = "empty"
                          THEN {<<v, "debug", a>>} ELSE {})
            files == VariantFiles(v, a, shape, sharded)
                     \cup (IF other
                           THEN VariantFiles("Extras", a, Parts, sharded)
                           ELSE {})
        IN  fs = TreeOf(files, dirs)
    /\ fs0 = fs
    /\ inode = OrigInodes(fs)
    /\ data = OrigData(inode)
    /\ files0 = [inode |-> inode, data |-> data]
    /\ rglob = <<>>
    /\ signer = NoSigner
    /\ http = <<>>
    /\ attempts = <<>>
    /\ effects = <<>>
    /\ now = 1
    /\ results = <<>>
    /\ results0 = results
    /\ latest = LatestA
    /\ locals = NoLocals
    /\ gen = <<>>
    /\ processed = {}
    /\ middle_fs = <<>>
    /\ composeinfo = <<>>
    /\ rpms = <<>>
    /\ images = <<>>
    /\ docs0 = NoDocs
    /\ trace = <<>>

NextReorg ==
    \/ move_sources_folder_to_right_place
    \/ move_sources_rmtree
    \/ move_debug_folder_to_right_place
    \/ move_debug_rename
    \/ move_debug_rmtree
    \/ Interrupt
    \/ Rerun

SpecReorg == InitReorg /\ [][NextReorg]_vars

\* The tree below p, by paths relative to p.
Subtree(f, p) ==
    [q \in {SubSeq(x, Len(p) + 1, Len(x)) : x \in Under(f, p)} |-> f[p \o q]]

SourceWrapper == <<CurrentRepo, "source">>

SourceDst == <<CurrentRepo, "Source">>

DebugWrapper == <<CurrentRepo, args.arch, "debug">>

DebugDst == <<CurrentRepo, "debug", args.arch>>

\* move_sources_folder_to_right_place has returned and nothing ran since.
SourcesReturned == pc = "move_debug_folder_to_right_place"

\* move_debug_folder_to_right_place has returned and nothing ran since.
DebugReturned == pc = "copy_updateinfo_from_platform_repos"

\* C12: if <variant>/source/tree exists, after
\* move_sources_folder_to_right_place <variant>/Source holds exactly the
\* former contents of source/tree and <variant>/source is gone; likewise
\* for <variant>/<arch>/debug/tree and <variant>/debug/<arch>; with the
\* wrapper absent the function changes nothing.  The functions raise only
\* on a wrapper that holds no tree.
C12_Reorganised ==
    /\ SourcesReturned =>
         /\ Exists(fs0, SourceWrapper \o <<"tree">>) =>
              /\ Subtree(fs, SourceDst)
                    = Subtree(fs0, SourceWrapper \o <<"tree">>)
              /\ ~Exists(fs, SourceWrapper)
         /\ ~Exists(fs0, SourceWrapper) => fs = fs0
    /\ DebugReturned =>
         /\ Exists(fs0, DebugWrapper \o <<"tree">>) =>
              /\ Subtree(fs, DebugDst)
                    = Subtree(fs0, DebugWrapper \o <<"tree">>)
              /\ ~Exists(fs, DebugWrapper)
         /\ ~Exists(fs0, DebugWrapper) => fs = fs0
    /\ pc = "raised" =>
         \/ Exists(fs0, SourceWrapper)
              /\ ~Exists(fs0, SourceWrapper \o <<"tree">>)
         \/ Exists(fs0, DebugWrapper)
              /\ ~Exists(fs0, DebugWrapper \o <<"tree">>)

C12_Witness ==
    /\ DebugReturned
    /\ Reruns = 0
    /\ Exists(fs0, DebugWrapper \o <<"tree", "Packages", "b">>)
    /\ Exists(fs, DebugDst \o <<"Packages", "b", "bash-debuginfo-5.rpm">>)
    /\ Exists(fs, SourceDst \o <<"Packages", "b", "bash-5.src.rpm">>)
    /\ ~Exists(fs, SourceWrapper)

\* The current run is a second or later one.
RerunAfter(what) ==
    \E i \in DOMAIN trace :
        /\ trace[i] = "rerun"
        /\ \A j \in DOMAIN trace : j > i => trace[j] # "rerun"
        /\ i > 1
        /\ trace[i - 1] = what

\* C13: running the two functions a second time on a tree they have fully
\* reorganised changes nothing and raises no error.
C13_Idempotent ==
    RerunAfter(Step("move_debug_folder_to_right_place", CurrentRepo)) =>
        /\ pc # "raised"
        /\ pc \notin MidCall
        /\ (SourcesReturned \/ DebugReturned) => fs = fs0

C13_Witness ==
    /\ RerunAfter(Step("move_debug_folder_to_right_place", CurrentRepo))
    /\ DebugReturned
    /\ Exists(fs, DebugDst \o <<"Packages", "bash-debuginfo-5.rpm">>)
    /\ Exists(fs, SourceDst \o <<"Packages", "bash-5.src.rpm">>)

\* C14: from a state reached by interrupting a call between two of its
\* filesystem steps, running the two functions again completes without
\* error and ends in the reorganised layout.
C14_RerunAfterInterrupt ==
    RerunAfter("interrupted") =>
        /\ pc # "raised"
        /\ DebugReturned =>
             ~Exists(fs, SourceWrapper) /\ ~Exists(fs, DebugWrapper)

(***************************************************************************)
(* SpecKickstart: lines 707-741 of cli_main for one variant, without      *)
(* signing: the kickstart tree is made from the os tree, the images are    *)
(* moved, and every .treeinfo of the variant is rewritten.                 *)
(***************************************************************************)
OsShapes == {"absent", "repo", "no_repodata", "no_treeinfo"}

KickstartShapes == {"absent", "empty", "stale"}

OsFiles(v, a, dir, shape, sharded) ==
    (IF shape = "absent" THEN {}
     ELSE {<<v, a, dir>> \o Pkg(sharded, "bash-5.rpm")})
    \cup (IF shape \in {"repo", "no_treeinfo"}
          THEN {<<v, a, dir, "repodata", "repomd.xml">>,
                <<v, a, dir, "repodata", "primary.xml.gz">>}
          ELSE {})
    \cup (IF shape \in {"repo", "no_repodata"}
          THEN {<<v, a, dir, ".treeinfo">>} ELSE {})

InitKickstart ==
    /\ pc = "create_kickstart_folder"
    /\ \E v \in {"BaseOS", "Extras"} :
        args = [NoArgs EXCEPT !.repos = <<v>>]
    /\ repo_i = 1
    /\ \E os \in OsShapes, kickstart \in KickstartShapes :
       \E sharded \in BOOLEAN, iso \in BOOLEAN, other \in BOOLEAN :
        LET v == args.repos[1]
            a == args.arch
            files == OsFiles(v, a, "os", os, sharded)
                     \cup (IF kickstart = "stale"
                           THEN OsFiles(v, a, "kickstart", "repo", sharded)
                           ELSE {})
                     \cup (IF iso THEN VariantFiles(v, a, {"iso"}, sharded)
                           ELSE {})
                     \cup (IF other
                           THEN VariantFiles("Minimal", a, {"os"}, sharded)
                           ELSE {})
            dirs == {<<v>>}
                    \cup (IF kickstart = "empty"
                          THEN {<<v, a, "kickstart">>} ELSE {})
        IN  fs = TreeOf(files, dirs)
    /\ fs0 = fs
    /\ inode = OrigInodes(fs)
    /\ data = OrigData(inode)
    /\ files0 = [inode |-> inode, data |-> data]
    /\ rglob = <<>>
    /\ signer = NoSigner
    /\ http = <<>>
    /\ attempts = <<>>
    /\ effects = <<>>
    /\ now \in Times
    /\ results = <<>>
    /\ results0 = results
    /\ latest = LatestA
    /\ locals = NoLocals
    /\ gen = <<>>
    /\ processed = {}
    /\ middle_fs = <<>>
    /\ composeinfo = <<>>
    /\ rpms = <<>>
    /\ images = <<>>
    /\ docs0 = NoDocs
    /\ trace = <<>>

NextKickstart ==
    \/ create_kickstart_folder
    \/ move_iso_and_its_artifacts_to_isos_arch_folder
    \/ move_iso_file
    \/ move_iso_checksum
    \/ move_iso_rmtree
    \/ update_treeinfo
    \/ for_treeinfo_path
    \/ update_timestamp_in_treeinfo
    \/ update_kickstart_treeinfo_file

SpecKickstart == InitKickstart /\ [][NextKickstart]_vars

\* create_kickstart_folder has returned and nothing ran since.
KickstartReturned ==
    /\ pc \in {"sign_repomd_xml",
               "move_iso_and_its_artifacts_to_isos_arch_folder"}
    /\ trace # <<>>
    /\ trace[Len(trace)] = Step("create_kickstart_folder", CurrentRepo)

\* The tree had os and no kickstart when create_kickstart_folder was called.
KickstartWasDue == Exists(fs0, OsPath) /\ ~Exists(fs0, KickstartPath)

\* C15: create_kickstart_folder acts only when <variant>/<arch>/os exists
\* and <variant>/<arch>/kickstart does not; after it returns, kickstart has
\* every file and directory of os at the same relative path, each file
\* outside repodata is the same underlying file as its os counterpart, each
\* file inside repodata is a file of its own, named by no other path, with
\* the content of its os counterpart, and nothing outside kickstart has
\* changed; in every other case the tree, the files and their contents are
\* what they were when the function was called.
C15_KickstartFolder ==
    KickstartReturned =>
        IF KickstartWasDue
        THEN /\ \A q \in Under(fs0, OsPath) :
                LET k == Rebase(q, OsPath, KickstartPath)
                IN  /\ Exists(fs, k)
                    /\ fs[k] = fs0[q]
                    /\ fs0[q] = "file" =>
                        IF IsPrefix(OsPath \o <<"repodata">>, q)
                        THEN /\ inode[k] # inode[q]
                             /\ \A p \in Files(fs) :
                                    inode[p] = inode[k] => p = k
                             /\ data[inode[k]].cfg = data[inode[q]].cfg
                             /\ data[inode[k]].text = data[inode[q]].text
                        ELSE inode[k] = inode[q]
             /\ \A q \in DOMAIN fs0 : Exists(fs, q) /\ fs[q] = fs0[q]
             /\ \A q \in Files(fs0) :
                    /\ inode[q] = files0.inode[q]
                    /\ data[inode[q]] = files0.data[inode[q]]
             /\ \A q \in DOMAIN fs \ DOMAIN fs0 : IsPrefix(KickstartPath, q)
        ELSE /\ fs = fs0
             /\ inode = files0.inode
             /\ data = files0.data

\* create_kickstart_folder has made kickstart from an os tree that has
\* packages, a descriptor and repodata.
C15_Witness ==
    /\ KickstartReturned
    /\ KickstartWasDue
    /\ Exists(fs, KickstartPath \o <<".treeinfo">>)
    /\ Exists(fs, KickstartPath \o <<"repodata", "repomd.xml">>)
    /\ inode[KickstartPath \o <<".treeinfo">>]
            = inode[OsPath \o <<".treeinfo">>]

\* create_kickstart_folder has returned from a call that found kickstart
\* there already.
C15_FoundKickstart ==
    /\ KickstartReturned
    /\ Exists(fs0, OsPath)
    /\ Exists(fs0, KickstartPath \o <<".treeinfo">>)

\* The loop of lines 733-741 has visited every .treeinfo of the variant and
\* nothing ran since.
TreeInfoDone ==
    /\ pc = "repo_loop"
    /\ trace # <<>>
    /\ trace[Len(trace)] = Step("update_treeinfo", CurrentRepo)

\* The configuration stored in the file at path p.
CfgAt(p) == data[inode[p]].cfg

DescribesKickstartVariant(p) ==
    Exists(fs, p) /\ KickstartSection \in DOMAIN CfgAt(p)

\* C16: the packages and repository values of the variant-AppStream section
\* of os/.treeinfo have their original values at every moment of the run,
\* and once the .treeinfo files of the variant have been processed, in
\* whichever order, those of kickstart/.treeinfo have "os" replaced by
\* "kickstart".
C16_OsDescriptorKept ==
    LET os == OsPath \o <<".treeinfo">>
        kickstart == KickstartPath \o <<".treeinfo">>
        a == args.arch
    IN  /\ DescribesKickstartVariant(os) =>
            /\ CfgAt(os)[KickstartSection].packages = OrigPackages(a)
            /\ CfgAt(os)[KickstartSection].repository = OrigRepository(a)
        /\ TreeInfoDone /\ DescribesKickstartVariant(kickstart) =>
            /\ CfgAt(kickstart)[KickstartSection].packages
                 = <<"../../../AppStream/", a, "/", "kickstart", "/Packages">>
            /\ CfgAt(kickstart)[KickstartSection].repository
                 = <<"../../../AppStream/", a, "/", "kickstart">>

\* The descriptors of os and of a kickstart tree made of hardlinks to os
\* have both been processed.
C16_Witness ==
    /\ TreeInfoDone
    /\ DescribesKickstartVariant(OsPath \o <<".treeinfo">>)
    /\ DescribesKickstartVariant(KickstartPath \o <<".treeinfo">>)
    /\ \E p \in Files(fs) :
        /\ IsPrefix(OsPath, p)
        /\ Exists(fs, Rebase(p, OsPath, KickstartPath))
        /\ inode[Rebase(p, OsPath, KickstartPath)] = inode[p]

\* update_kickstart_treeinfo_file has returned and nothing ran since.
KickstartTreeInfoReturned == pc = "treeinfo_rewritten"

\* The configuration the file at path p held when the function was called.
CfgBefore(p) == files0.data[files0.inode[p]].cfg

\* C17: when update_kickstart_treeinfo_file returns, the descriptor has the
\* sections and options it had when the function was called; the packages
\* and repository values of variant-AppStream have every "os" replaced by
\* "kickstart" and every other option of every section has the value it
\* had; a descriptor without that section has all its values; and every
\* other file is the file it was, with the content it had.
C17_OnlyKickstartOptions ==
    KickstartTreeInfoReturned =>
        LET p == Head(rglob)
            old == CfgBefore(p)
            new == CfgAt(p)
        IN  /\ DOMAIN new = DOMAIN old
            /\ \A s \in DOMAIN old :
                /\ DOMAIN new[s] = DOMAIN old[s]
                /\ \A o \in DOMAIN old[s] :
                    IF s = KickstartSection
                       /\ o \in {"packages", "repository"}
                    THEN /\ Len(new[s][o]) = Len(old[s][o])
                         /\ \A k \in 1..Len(old[s][o]) :
                                new[s][o][k] = IF old[s][o][k] = "os"
                                               THEN "kickstart"
                                               ELSE old[s][o][k]
                    ELSE new[s][o] = old[s][o]
            /\ KickstartSection \notin DOMAIN old => new = old
            /\ DOMAIN inode = DOMAIN files0.inode
            /\ \A q \in DOMAIN inode \ {p} :
                /\ inode[q] = files0.inode[q]
                /\ data[inode[q]] = files0.data[inode[q]]

\* update_kickstart_treeinfo_file has rewritten a descriptor that has the
\* section of the variant included in kickstart.
C17_Witness ==
    /\ KickstartTreeInfoReturned
    /\ KickstartSection \in DOMAIN CfgBefore(Head(rglob))
    /\ CfgAt(Head(rglob)) # CfgBefore(Head(rglob))

\* update_kickstart_treeinfo_file has rewritten a descriptor without that
\* section.
C17_SectionAbsent ==
    /\ KickstartTreeInfoReturned
    /\ KickstartSection \notin DOMAIN CfgBefore(Head(rglob))

(***************************************************************************)
(* Signing, in SpecBody: the requests the sign service has answered and    *)
(* the files a Signer was constructed for.                                 *)
(***************************************************************************)
\* C18: every sign request comes right after a token request that was
\* answered with success and carries the token of that answer; no two sign
\* requests carry the same token; and the token requests are as many as the
\* files a Signer was constructed for (one less while the Signer of the
\* current file has not yet asked for its token).
C18_FreshSessionPerFile ==
    /\ \A k \in SignRequests :
        /\ k > 1
        /\ http[k - 1].url = "token"
        /\ http[k - 1].status = "ok"
        /\ http[k - 1].token = http[k].token
        /\ http[k].file = attempts[Cardinality({j \in TokenRequests : j < k})]
    /\ \A j, k \in SignRequests : http[j].token = http[k].token => j = k
    /\ Cardinality(TokenRequests)
         = Len(attempts) - (IF pc = "Signer" THEN 1 ELSE 0)

\* Three files or more have been sent to the sign service, the last of them
\* the CHECKSUM file.
C18_Witness ==
    /\ Cardinality(SignRequests) >= 3
    /\ http[Len(http)].url = "sign"
    /\ http[Len(http)].file = ChecksumPath

\* The sign service has answered a request with an error status.
ServiceFailed == \E k \in DOMAIN http : http[k].status = "error"

\* C19: a request the sign service answers with an error status is the last
\* request of the run, and the run has stopped on the exception without
\* promoting the result; if it was the sign request, the tree, the files
\* and their contents, the file being signed and the signature path among
\* them, are what they were when Signer.sign was called; and from then on
\* no step runs.
C19_ServiceFailureAborts ==
    /\ [](\A k \in DOMAIN http :
            http[k].status = "error" =>
                /\ k = Len(http)
                /\ pc = "raised"
                /\ ~Did("rename_latest_dir")
                /\ http[k].url = "sign" =>
                    /\ fs = fs0
                    /\ inode = files0.inode
                    /\ data = files0.data)
    /\ [][ServiceFailed => UNCHANGED vars]_vars

\* The sign request for a repomd.xml that has no signature yet was answered
\* with an error status.
C19_Witness ==
    /\ http # <<>>
    /\ http[Len(http)].url = "sign"
    /\ http[Len(http)].status = "error"
    /\ Exists(fs, http[Len(http)].file)
    /\ ~Exists(fs, AscPath(http[Len(http)].file))

\* A token request that follows a signed file was answered with an error
\* status.
C19_TokenRefused ==
    /\ Len(http) > 2
    /\ http[Len(http)].url = "token"
    /\ http[Len(http)].status = "error"

\* sign_repomd_xml has returned for the current variant and nothing ran
\* since.
SignRepomdReturned ==
    /\ pc = "move_iso_and_its_artifacts_to_isos_arch_folder"
    /\ trace # <<>>
    /\ trace[Len(trace)] = Step("sign_repomd_xml", CurrentRepo)

\* sign_isos_checksum has returned and nothing ran since.
SignIsosReturned ==
    /\ pc = "merge_middle_isos"
    /\ trace # <<>>
    /\ trace[Len(trace)] = "sign_isos_checksum"

\* The repomd.xml of the os, kickstart, Source and debug repositories
VariantRepomds ==
    {d \o <<"repodata", "repomd.xml">> :
        d \in {OsPath, KickstartPath, SourceDst, DebugDst}}

\* The sign requests for file p that the service answered with success
SignedAs(p, sign_type) ==
    {k \in SignRequests : /\ http[k].file = p
                          /\ http[k].sign_type = sign_type
                          /\ http[k].status = "ok"}

\* C20: with sign credentials, when sign_repomd_xml returns for a variant,
\* each of its os, kickstart, Source and debug repomd.xml that exists has a
\* repomd.xml.asc beside it holding the detached signature the service gave
\* for that file, and no request was made for one that does not exist; when
\* sign_isos_checksum returns, an existing isos/<arch>/CHECKSUM has been
\* sent exactly once, as clear-sign, and holds its former text inside the
\* signed message, and for an absent one no request was made; no other file
\* is ever sent as clear-sign and CHECKSUM is never sent as detach-sign.
C20_SignedFiles ==
    /\ SignRepomdReturned =>
        \A p \in VariantRepomds :
            IF Exists(fs, p)
            THEN /\ Exists(fs, AscPath(p))
                 /\ data[inode[AscPath(p)]] = Text(<<"asc", p>>)
                 /\ SignedAs(p, "detach-sign") # {}
            ELSE \A k \in DOMAIN http : http[k].file # p
    /\ SignIsosReturned =>
        IF Exists(fs, ChecksumPath)
        THEN /\ Cardinality(SignedAs(ChecksumPath, "clear-sign")) = 1
             /\ LET text == data[inode[ChecksumPath]].text
                IN  /\ Len(text) > 2
                    /\ text[1] = <<"signed-message", ChecksumPath>>
                    /\ text[Len(text)] = <<"signature", ChecksumPath>>
                    /\ SubSeq(text, 2, Len(text) - 1)
                         = files0.data[files0.inode[ChecksumPath]].text
        ELSE \A k \in DOMAIN http : http[k].file # ChecksumPath
    /\ \A k \in SignRequests :
        http[k].sign_type = "clear-sign" <=> http[k].file = ChecksumPath

\* sign_repomd_xml has returned for a variant that has os and kickstart
\* repositories and neither a Source nor a debug repository.
C20_Witness ==
    /\ SignRepomdReturned
    /\ Exists(fs, OsPath \o <<"repodata", "repomd.xml.asc">>)
    /\ Exists(fs, KickstartPath \o <<"repodata", "repomd.xml.asc">>)
    /\ ~Exists(fs, SourceDst \o <<"repodata", "repomd.xml">>)
    /\ ~Exists(fs, DebugDst \o <<"repodata", "repomd.xml">>)

\* sign_repomd_xml has returned for a variant that has the four
\* repositories.
C20_AllFour ==
    /\ SignRepomdReturned
    /\ \A p \in VariantRepomds : Exists(fs, AscPath(p))

\* sign_isos_checksum has returned from signing the CHECKSUM file.
C20_ChecksumSigned == SignIsosReturned /\ Exists(fs, ChecksumPath)

\* sign_isos_checksum has returned without a CHECKSUM file to sign.
C20_ChecksumAbsent == SignIsosReturned /\ ~Exists(fs, ChecksumPath)

\* Signer.sign has written the response and nothing ran since.
SignReturned == pc = "Signer_verify"

\* The step sends a file to the service and the service answers with success.
SignAnswered ==
    /\ Len(http') = Len(http) + 1
    /\ http'[Len(http')].url = "sign"
    /\ http'[Len(http')].status = "ok"

\* C21: when Signer.sign returns, in detached mode <file>.asc holds the
\* response and the signed file is the file it was with the content it had,
\* and in clear-sign mode the file itself holds the response and no sidecar
\* was made; the step after a successful sign request is the verification
\* of what was written, which changes no file and sends no request; and
\* after a non-zero exit of gpg the run has stopped on the exception,
\* without promoting the result, and no step follows.
C21_SignThenVerify ==
    /\ [](SignReturned =>
            LET f == signer.file
                asc == AscPath(f)
            IN  IF signer.sign_type = "detach-sign"
                THEN /\ Exists(fs, asc)
                     /\ data[inode[asc]] = Text(<<"asc", f>>)
                     /\ inode[f] = files0.inode[f]
                     /\ data[inode[f]] = files0.data[files0.inode[f]]
                ELSE /\ inode[f] = files0.inode[f]
                     /\ data[inode[f]].text
                          = << <<"signed-message", f>> >>
                              \o files0.data[files0.inode[f]].text
                              \o << <<"signature", f>> >>
                     /\ Exists(fs, asc) <=> Exists(fs0, asc))
    /\ [](signer.gpg = "non-zero" =>
            pc = "raised" /\ ~Did("rename_latest_dir"))
    /\ [][/\ SignAnswered => pc' = "Signer_verify"
          /\ SignReturned =>
                /\ UNCHANGED <<fs, inode, data, http>>
                /\ signer'.gpg # "not run" \/ signer' = NoSigner
                /\ pc' \in {"raised", "for_repomd_xml_path",
                            "merge_middle_isos"}
          /\ signer.gpg = "non-zero" => UNCHANGED vars]_vars

\* gpg has rejected the signature written for the second repomd.xml of a
\* variant.
C21_Witness ==
    /\ signer.gpg = "non-zero"
    /\ signer.sign_type = "detach-sign"
    /\ Exists(fs, AscPath(signer.file))
    /\ Cardinality(SignRequests) >= 2

\* The CHECKSUM file has been clear-signed and is about to be verified.
C21_ClearSigned == SignReturned /\ signer.sign_type = "clear-sign"

(***************************************************************************)
(* SpecIso: the calls of move_iso_and_its_artifacts_to_isos_arch_folder   *)
(* that the loop of line 684 makes for one or two variants (lines         *)
(* 726-731), on trees with and without iso directories, CHECKSUM files and *)
(* an isos/<arch> left by an earlier run.  A call may be killed between    *)
(* two of its steps and the call be made again on the tree as it is.       *)
(***************************************************************************)
IsoShapes == {"absent", "empty", "images", "images and CHECKSUM"}

IsosShapes == {"absent", "empty", "image", "CHECKSUM"}

IsoFiles(v, a, shape) ==
    (IF shape \in {"images", "images and CHECKSUM"}
     THEN {<<v, a, "iso", v \o "-1.iso">>,
           <<v, a, "iso", v \o "-1.iso.manifest">>}
     ELSE {})
    \cup (IF shape = "images and CHECKSUM"
          THEN {<<v, a, "iso", "CHECKSUM">>} ELSE {})

InitIso ==
    /\ pc = "move_iso_and_its_artifacts_to_isos_arch_folder"
    /\ \E repos \in {<<"BaseOS">>, <<"BaseOS", "Extras">>,
                     <<"Extras", "BaseOS">>} :
        args = [NoArgs EXCEPT !.repos = repos]
    /\ repo_i = 1
    /\ \E shape \in [{"BaseOS", "Extras"} -> IsoShapes] :
       \E isos \in IsosShapes :
        LET a == args.arch
            vs == {args.repos[k] : k \in DOMAIN args.repos}
            files == UNION {IsoFiles(v, a, shape[v]) : v \in vs}
                     \cup {<<v, a, "os", ".treeinfo">> : v \in vs}
                     \cup (IF isos = "image"
                           THEN {<<"isos", a, "BaseOS-1.iso">>}
                           ELSE IF isos = "CHECKSUM"
                           THEN {<<"isos", a, "CHECKSUM">>} ELSE {})
            dirs == {<<v, a, "iso">> : v \in {w \in vs : shape[w] = "empty"}}
                    \cup (IF isos = "empty" THEN {<<"isos", a>>} ELSE {})
        IN  /\ \A v \in {"BaseOS", "Extras"} \ vs : shape[v] = "absent"
            /\ fs = TreeOf(files, dirs)
    /\ fs0 = fs
    /\ inode = OrigInodes(fs)
    /\ data = OrigData(inode)
    /\ files0 = [inode |-> inode, data |-> data]
    /\ rglob = <<>>
    /\ signer = NoSigner
    /\ http = <<>>
    /\ attempts = <<>>
    /\ effects = <<>>
    /\ now = 1
    /\ results = <<>>
    /\ results0 = results
    /\ latest = LatestA
    /\ locals = NoLocals
    /\ gen = <<>>
    /\ processed = {}
    /\ middle_fs = <<>>
    /\ composeinfo = <<>>
    /\ rpms = <<>>
    /\ images = <<>>
    /\ docs0 = NoDocs
    /\ trace = <<>>

\* Line 684: the call for the next variant
IsoNextRepo ==
    /\ pc = "update_treeinfo"
    /\ repo_i < Len(args.repos)
    /\ repo_i' = repo_i + 1
    /\ pc' = "move_iso_and_its_artifacts_to_isos_arch_folder"
    /\ UNCHANGED <<args, effects, attempts, signer, http, rglob, inode, data, files0,
                   fs, fs0, now, results, results0, latest, locals, gen,
                   processed, middle_fs, composeinfo, rpms, images, docs0,
                   trace>>

IsoMidCall == {"move_iso_file", "move_iso_checksum", "move_iso_rmtree"}

\* The process is killed between two steps of the call.
IsoInterrupt ==
    /\ pc \in IsoMidCall
    /\ pc' = "interrupted"
    /\ trace' = Append(trace, "interrupted")
    /\ UNCHANGED <<args, effects, attempts, signer, http, rglob, inode, data, files0,
                   fs, fs0, now, results, results0, latest, locals, gen,
                   processed, middle_fs, composeinfo, rpms, images, docs0,
                   repo_i>>

\* The call is made again for the same variant on the tree as it is.
IsoRerun ==
    /\ pc \in {"interrupted", "update_treeinfo"}
    /\ Reruns < MaxReruns
    /\ pc' = "move_iso_and_its_artifacts_to_isos_arch_folder"
    /\ trace' = Append(trace, "rerun")
    /\ UNCHANGED <<args, effects, attempts, signer, http, rglob, inode, data, files0,
                   fs, fs0, now, results, results0, latest, locals, gen,
                   processed, middle_fs, composeinfo, rpms, images, docs0,
                   repo_i>>

NextIso ==
    \/ move_iso_and_its_artifacts_to_isos_arch_folder
    \/ move_iso_file
    \/ move_iso_checksum
    \/ move_iso_rmtree
    \/ IsoNextRepo
    \/ IsoInterrupt
    \/ IsoRerun

SpecIso == InitIso /\ [][NextIso]_vars

\* move_iso_and_its_artifacts_to_isos_arch_folder has returned for the
\* current variant and nothing ran since.
MoveIsoReturned ==
    /\ pc = "update_treeinfo"
    /\ trace # <<>>
    /\ trace[Len(trace)]
         = Step("move_iso_and_its_artifacts_to_isos_arch_folder", CurrentRepo)

\* The file at path p is the file it was when the function was called, with
\* the content it had.
SameFileAsBefore(p) ==
    /\ Exists(fs, p)
    /\ inode[p] = files0.inode[p]
    /\ data[inode[p]] = files0.data[files0.inode[p]]

\* C22: when move_iso_and_its_artifacts_to_isos_arch_folder returns from a
\* call that found <variant>/<arch>/iso, each *.iso and *.manifest file of
\* that directory whose name was not in isos/<arch> is now in isos/<arch>,
\* the same file with the same content; every file that was in isos/<arch>
\* is still the file it was and, but for CHECKSUM, which keeps its former
\* text at the start, has the content it had; and the iso directory is
\* gone.  From a call that found no iso directory, every file is the file
\* it was with the content it had and no file was made.
C22_IsoCollector ==
    MoveIsoReturned =>
        IF Exists(fs0, IsoFolder)
        THEN /\ \A q \in Children(fs0, IsoFolder) :
                    LET dst == IsosArchFolder \o <<FileName(q)>>
                    IN  /\ FileName(q) \in IsoArtifactNames
                        /\ ~Exists(fs0, dst)
                        => /\ Exists(fs, dst)
                           /\ inode[dst] = files0.inode[q]
                           /\ data[inode[dst]] = files0.data[files0.inode[q]]
             /\ \A p \in Files(fs0) :
                    IsPrefix(IsosArchFolder, p) =>
                        IF FileName(p) = "CHECKSUM"
                        THEN /\ Exists(fs, p)
                             /\ inode[p] = files0.inode[p]
                             /\ LET old == files0.data[files0.inode[p]].text
                                IN  SubSeq(data[inode[p]].text, 1, Len(old))
                                      = old
                        ELSE SameFileAsBefore(p)
             /\ ~Exists(fs, IsoFolder)
        ELSE /\ Files(fs) = Files(fs0)
             /\ inode = files0.inode
             /\ data = files0.data

\* A call has returned that found an image whose name was in isos/<arch>
\* already, and a manifest whose name was not.
C22_Witness ==
    /\ MoveIsoReturned
    /\ Exists(fs0, IsoFolder \o <<"BaseOS-1.iso">>)
    /\ Exists(fs0, IsosArchFolder \o <<"BaseOS-1.iso">>)
    /\ Exists(fs, IsosArchFolder \o <<"BaseOS-1.iso.manifest">>)

\* A call has returned that found no iso directory.
C22_NoIsoFolder == MoveIsoReturned /\ ~Exists(fs0, IsoFolder)

SharedChecksum == IsosArchFolder \o <<"CHECKSUM">>

\* The content the compose tool gave the CHECKSUM file at path p
ChecksumBlock(p) == OrigInode(p)

\* The blocks of the CHECKSUM files in processing order: the one isos/<arch>
\* had from the start, then those of the variants called for so far.
BlocksInOrder ==
    <<ChecksumBlock(SharedChecksum)>>
        \o [k \in 1..repo_i |->
              ChecksumBlock(<<args.repos[k], args.arch, "iso", "CHECKSUM">>)]

\* The position of block b in BlocksInOrder
OrderOf(b) == CHOOSE k \in DOMAIN BlocksInOrder : BlocksInOrder[k] = b

\* C23: when a call returns, the shared CHECKSUM holds the text it had when
\* the call was made followed by the text of the CHECKSUM of the variant;
\* it is made from that text when it was not there and left alone when the
\* variant has no CHECKSUM.  And in a run no call of which was killed, after
\* the calls for A and then B the shared CHECKSUM holds the text it started
\* with, then that of A, then that of B, each once.
C23_ChecksumAppendOrder ==
    MoveIsoReturned =>
        LET src == IsoFolder \o <<"CHECKSUM">>
            old == IF Exists(fs0, SharedChecksum)
                   THEN files0.data[files0.inode[SharedChecksum]].text
                   ELSE <<>>
            text == data[inode[SharedChecksum]].text
        IN  /\ IF Exists(fs0, src)
               THEN /\ Exists(fs, SharedChecksum)
                    /\ text = old \o files0.data[files0.inode[src]].text
               ELSE /\ Exists(fs, SharedChecksum)
                        <=> Exists(fs0, SharedChecksum)
                    /\ Exists(fs, SharedChecksum) => text = old
            /\ ~Did("interrupted") /\ Exists(fs, SharedChecksum) =>
                /\ \A k \in DOMAIN text :
                    \E j \in DOMAIN BlocksInOrder : BlocksInOrder[j] = text[k]
                /\ \A j, k \in DOMAIN text :
                    j < k => OrderOf(text[j]) < OrderOf(text[k])

\* Starting without a shared CHECKSUM, the calls for two variants that each
\* have a CHECKSUM have returned.
C23_Witness ==
    /\ MoveIsoReturned
    /\ ~Did("interrupted")
    /\ repo_i = 2
    /\ Exists(fs, SharedChecksum)
    /\ data[inode[SharedChecksum]].text
         = <<BlocksInOrder[2], BlocksInOrder[3]>>

\* The call for a variant with a CHECKSUM has returned after finding a
\* shared CHECKSUM left by an earlier run.
C23_ExistingContent ==
    /\ MoveIsoReturned
    /\ Exists(fs0, SharedChecksum)
    /\ Exists(fs0, IsoFolder \o <<"CHECKSUM">>)

\* How many times block b is in a text
Occurrences(text, b) == Cardinality({k \in DOMAIN text : text[k] = b})

\* C24: when a call made again for a variant returns, after a call that
\* returned or one that was killed between two of its steps, each image and
\* manifest the variant had is in isos/<arch> and the shared CHECKSUM
\* holds the text of the CHECKSUM of the variant once.
C24_RerunSafe ==
    MoveIsoReturned /\ Did("rerun") =>
        LET v == CurrentRepo
            a == args.arch
            sum == ChecksumBlock(<<v, a, "iso", "CHECKSUM">>)
        IN  /\ \A n \in {v \o "-1.iso", v \o "-1.iso.manifest"} :
                (\E p \in Files(fs) : inode[p] = OrigInode(<<v, a, "iso", n>>))
                    => Exists(fs, IsosArchFolder \o <<n>>)
            /\ Exists(fs, SharedChecksum) =>
                Occurrences(data[inode[SharedChecksum]].text, sum) <= 1

\* The step removes the directory given by --middle-result-directory.
MiddleResultRemoved == middle_fs # <<>> /\ middle_fs' = <<>>

\* The images, manifests and CHECKSUM files the middle repos have in the
\* middle result directory
MiddleIsoFiles ==
    {p \in Files(middle_fs) :
        /\ Len(p) = 4
        /\ p[3] = "iso"
        /\ InSeq(p[1], args.middle_repos)
        /\ p[4] \in IsoArtifactNames \cup {"CHECKSUM"}}

\* C25: whenever cli_main removes the directory given by
\* --middle-result-directory, the merge of the middle repos into a processed
\* result has been made in this run and no image, manifest or CHECKSUM of a
\* middle repo is left in the directory.
C25_RemovedOnceMerged ==
    [][MiddleResultRemoved =>
          Did("merge_middle_isos") /\ MiddleIsoFiles = {}]_vars

\* The calls of the loop body of lines 692-741 for variant v
PerVariantCalls(v) ==
    {Step(s, v) : s \in {"move_sources_folder_to_right_place",
                         "move_debug_folder_to_right_place",
                         "copy_updateinfo_from_platform_repos",
                         "create_kickstart_folder", "sign_repomd_xml",
                         "move_iso_and_its_artifacts_to_isos_arch_folder",
                         "update_treeinfo"}}

\* C26: none of the per-variant calls is made for a variant listed in
\* --middle-repos, and once the loop over the variants of a result has
\* ended no variant listed in --middle-repos has a subtree under the
\* compose root.
C26_MiddleStripped ==
    \A k \in DOMAIN args.middle_repos :
        LET m == args.middle_repos[k]
        IN  /\ \A i \in DOMAIN trace : trace[i] \notin PerVariantCalls(m)
            /\ Did("move_json_metadata_to_arch_folder") => ~Exists(fs, <<m>>)

(***************************************************************************)
(* SpecUpdateinfo: copy_updateinfo_from_platform_repos and                 *)
(* create_kickstart_folder for one variant (lines 701-711), with and       *)
(* without an os tree, with an updateinfo file already in its repodata or  *)
(* not, and with none, one or two matching files in the platform store.    *)
(***************************************************************************)
UpdateinfoNames == {"updateinfo.xml", "1-updateinfo.xml.gz"}

OsChoices == {"absent", "repo", "no_repodata", "has updateinfo.xml",
              "has both"}

InitUpdateinfo ==
    /\ pc = "copy_updateinfo_from_platform_repos"
    /\ \E v \in {"BaseOS", "Extras"}, names \in SUBSET UpdateinfoNames :
       \E others \in BOOLEAN :
        args = [NoArgs EXCEPT
                  !.repos = <<v>>,
                  !.platform =
                     {PlatformRepodata(v, "x86_64") \o <<n>> : n \in names}
                     \cup (IF others
                           THEN {PlatformRepodata("Minimal", "x86_64")
                                    \o <<"updateinfo.xml">>}
                           ELSE {})]
    /\ repo_i = 1
    /\ \E os \in OsChoices, sharded \in BOOLEAN :
        LET v == args.repos[1]
            a == args.arch
            shape == IF os \in {"absent", "no_repodata"} THEN os ELSE "repo"
            files == OsFiles(v, a, "os", shape, sharded)
                     \cup (IF os \in {"has updateinfo.xml", "has both"}
                           THEN {<<v, a, "os", "repodata", "updateinfo.xml">>}
                           ELSE {})
                     \cup (IF os = "has both"
                           THEN {<<v, a, "os", "repodata",
                                   "1-updateinfo.xml.gz">>}
                           ELSE {})
        IN  fs = TreeOf(files, {<<v>>})
    /\ fs0 = fs
    /\ inode = OrigInodes(fs)
    /\ data = OrigData(inode)
    /\ files0 = [inode |-> inode, data |-> data]
    /\ rglob = <<>>
    /\ signer = NoSigner
    /\ http = <<>>
    /\ attempts = <<>>
    /\ effects = <<>>
    /\ now = 1
    /\ results = <<>>
    /\ results0 = results
    /\ latest = LatestA
    /\ locals = NoLocals
    /\ gen = <<>>
    /\ processed = {}
    /\ middle_fs = <<>>
    /\ composeinfo = <<>>
    /\ rpms = <<>>
    /\ images = <<>>
    /\ docs0 = NoDocs
    /\ trace = <<>>

NextUpdateinfo ==
    \/ copy_updateinfo_from_platform_repos
    \/ for_updateinfo_path
    \/ create_kickstart_folder

SpecUpdateinfo == InitUpdateinfo /\ [][NextUpdateinfo]_vars

\* copy_updateinfo_from_platform_repos has returned and nothing ran since.
UpdateinfoReturned ==
    /\ pc = "create_kickstart_folder"
    /\ trace # <<>>
    /\ trace[Len(trace)]
         = Step("copy_updateinfo_from_platform_repos", CurrentRepo)

EffectsOf(kind) == {k \in DOMAIN effects : effects[k].kind = kind}

\* The files of the platform store that match for the current variant
CurrentMatches == UpdateinfoMatches(args.platform, CurrentRepo, args.arch)

\* C27: in a call of copy_updateinfo_from_platform_repos at most one file
\* is copied and modifyrepo_c is run at most once, on the file just copied;
\* when the call returns the loop has not gone past the first file the glob
\* yielded, a copy that was made is that of the first file under its own
\* name into repodata of os, where no file of that name was, and no other
\* file was made; and when a file of that name was there, nothing was
\* copied, nothing was run, and the tree, the files and their contents are
\* what they were.
C27_OneUpdateinfo ==
    /\ Cardinality(EffectsOf("copy")) <= 1
    /\ Cardinality(EffectsOf("modifyrepo_c")) <= 1
    /\ \A k \in EffectsOf("modifyrepo_c") :
        /\ k > 1
        /\ effects[k - 1].kind = "copy"
        /\ effects[k - 1].path = effects[k].path
    /\ UpdateinfoReturned /\ Exists(fs0, OsPath) =>
        /\ Len(rglob) = Cardinality(CurrentMatches)
        /\ \A k \in EffectsOf("copy") :
            /\ effects[k].path
                 = OsPath \o <<"repodata", FileName(Head(rglob))>>
            /\ ~Exists(fs0, effects[k].path)
        /\ Files(fs) \ Files(fs0)
             = {effects[k].path : k \in EffectsOf("copy")}
        /\ rglob # <<>>
           /\ Exists(fs0, OsPath \o <<"repodata", FileName(Head(rglob))>>)
           => /\ EffectsOf("copy") = {}
              /\ EffectsOf("modifyrepo_c") = {}
              /\ fs = fs0
              /\ inode = files0.inode
              /\ data = files0.data

\* With two matching files in the store, the first was copied and
\* registered.
C27_Witness ==
    /\ UpdateinfoReturned
    /\ Len(rglob) = 2
    /\ EffectsOf("copy") # {}
    /\ EffectsOf("modifyrepo_c") # {}

\* With two matching files in the store, the first was in repodata already
\* and the second was not.
C27_FirstExists ==
    /\ UpdateinfoReturned
    /\ Len(rglob) = 2
    /\ Exists(fs0, OsPath \o <<"repodata", FileName(rglob[1])>>)
    /\ ~Exists(fs0, OsPath \o <<"repodata", FileName(rglob[2])>>)

\* C28: a call of copy_updateinfo_from_platform_repos that finds no os tree
\* for the variant, or no matching file in the platform store, does not
\* raise; when it returns, nothing was copied, modifyrepo_c was not run, the
\* tree, the files and their contents are what they were, and a warning was
\* logged.
C28_NoOpWithWarning ==
    ~Exists(fs0, OsPath) \/ CurrentMatches = {} =>
        /\ ~Did(Step("copy_updateinfo_from_platform_repos", CurrentRepo))
              => pc # "raised"
        /\ UpdateinfoReturned =>
            /\ EffectsOf("copy") = {}
            /\ EffectsOf("modifyrepo_c") = {}
            /\ fs = fs0
            /\ inode = files0.inode
            /\ data = files0.data
            /\ EffectsOf("warning") # {}

(***************************************************************************)
(* cleanup.py: cli_main removes the old builds of pungi-results.  results  *)
(* maps an entry name to its kind and modification time; rglob holds       *)
(* old_pungi_results, the entries the loop of line 70 has yet to remove.   *)
(***************************************************************************)
MaxKeep == 2

MaxMtime == 2

\* Lines 49-55: dirs_prefixes
DirsPrefixes(excluded_dirs) ==
    {<<"latest-">>, <<"minimal_iso">>}
        \cup {excluded_dirs[i] : i \in DOMAIN excluded_dirs}

\* Lines 61-64: i.is_dir() follows a symbolic link
is_dir(entry) == entry.kind \in {"dir", "link"}

\* Lines 57-65: the directories that start with none of the prefixes
OldPungiResults(dir, prefixes) ==
    {n \in DOMAIN dir :
        /\ is_dir(dir[n])
        /\ ~\E prefix \in prefixes : StartsWith(n, prefix)}

\* sorted(..., key=os.path.getmtime, reverse=True)
SortedByMtimeReversed(dir, names) ==
    {q \in Orders(names) :
        \A i, j \in DOMAIN q : i < j => dir[q[i]].mtime >= dir[q[j]].mtime}

\* Lines 56, 66: sorted(..., key=os.path.getmtime); entries of the same
\* modification time stay in the order iterdir yielded them, which is any.
SortedByMtime(dir, names) ==
    {q \in Orders(names) :
        \A i, j \in DOMAIN q : i < j => dir[q[i]].mtime <= dir[q[j]].mtime}

\* Line 69: the slice s[:stop] of Python; a negative stop counts from the
\* end, and s[:-0] is s[:0], the empty list.
SliceTo(s, stop) ==
    LET end == IF stop < 0 THEN Len(s) + stop ELSE stop
    IN  SubSeq(s, 1, IF end > Len(s) THEN Len(s) ELSE end)

\* old_pungi_results[:-keep_builds] for every keep_builds
AlwaysSliced(sorted, keep_builds) == SliceTo(sorted, 0 - keep_builds)

\* Lines 68-69: if args.keep_builds: old_pungi_results[:-args.keep_builds]
Sliced(sorted, keep_builds) ==
    IF keep_builds # 0
    THEN SliceTo(sorted, 0 - keep_builds)
    ELSE sorted

\* Lines 44-69
cleanup_cli_main ==
    /\ pc = "cleanup_cli_main"
    /\ \E sorted \in SortedByMtime(results,
                        OldPungiResults(results,
                                        DirsPrefixes(args.excluded_dirs))) :
        rglob' = Sliced(sorted, args.keep_builds)
    /\ pc' = "for_old_pungi_result"
    /\ UNCHANGED <<args, effects, attempts, signer, http, now, results,
                   results0, latest, locals, gen, processed, middle_fs, fs,
                   fs0, inode, data, files0, composeinfo, rpms, images, docs0,
                   repo_i, trace>>

\* Lines 70-75: rmtree(old_pungi_result)
for_old_pungi_result ==
    /\ pc = "for_old_pungi_result"
    /\ IF rglob = <<>>
       THEN /\ pc' = "done"
            /\ UNCHANGED <<results, rglob, trace>>
       ELSE /\ results' = [n \in DOMAIN results \ {Head(rglob)} |-> results[n]]
            /\ rglob' = Tail(rglob)
            /\ trace' = Append(trace, "rmtree")
            /\ pc' = pc
    /\ UNCHANGED <<args, effects, attempts, signer, http, now, results0,
                   latest, locals, gen, processed, middle_fs, fs, fs0, inode,
                   data, files0, composeinfo, rpms, images, docs0, repo_i>>

(***************************************************************************)
(* SpecCleanup: one run of cleanup.py on a pungi-results directory holding *)
(* builds, a latest-* link, the minimal_iso directories and a plain file.  *)
(***************************************************************************)
Builds == {<<"8", "_a">>, <<"8", "_b">>, <<"9", "_c">>}

Retained == {LatestA, <<"minimal_iso">>, <<"minimal_iso", ".old">>}

Notes == <<"notes">>

ExcludedChoices == {<<>>, << <<"9">> >>, << <<"9">>, <<"8", "_a">> >>}

CleanupKind(n) ==
    IF n = Notes THEN "file" ELSE IF n = LatestA THEN "link" ELSE "dir"

InitCleanup ==
    /\ pc = "cleanup_cli_main"
    /\ \E keep \in 0..MaxKeep, excluded \in ExcludedChoices :
        args = [keep_builds |-> keep, excluded_dirs |-> excluded]
    /\ \E builds \in SUBSET Builds, retained \in SUBSET Retained,
          notes \in SUBSET {Notes} :
       \E mtime \in [builds -> 1..MaxMtime] :
        results = [n \in builds \cup retained \cup notes |->
                     [kind |-> CleanupKind(n),
                      mtime |-> IF n \in builds THEN mtime[n] ELSE 1]]
    /\ results0 = results
    /\ rglob = <<>>
    /\ now = 1
    /\ latest = <<>>
    /\ locals = NoLocals
    /\ gen = <<>>
    /\ processed = {}
    /\ middle_fs = <<>>
    /\ fs = NoFs
    /\ fs0 = fs
    /\ inode = OrigInodes(fs)
    /\ data = OrigData(inode)
    /\ files0 = [inode |-> inode, data |-> data]
    /\ signer = NoSigner
    /\ http = <<>>
    /\ attempts = <<>>
    /\ effects = <<>>
    /\ composeinfo = <<>>
    /\ rpms = <<>>
    /\ images = <<>>
    /\ docs0 = NoDocs
    /\ repo_i = 0
    /\ trace = <<>>

NextCleanup ==
    \/ cleanup_cli_main
    \/ for_old_pungi_result

SpecCleanup == InitCleanup /\ [][NextCleanup]_vars

\* An entry whose name starts with latest-, minimal_iso or an
\* --excluded-dirs prefix
Protected(n) ==
    \/ StartsWith(n, <<"latest-">>)
    \/ StartsWith(n, <<"minimal_iso">>)
    \/ \E i \in DOMAIN args.excluded_dirs :
          StartsWith(n, args.excluded_dirs[i])

\* The eligible directories cleanup found, those it kept and those it
\* removed
Eligible == {n \in DOMAIN results0 :
                results0[n].kind = "dir" /\ ~Protected(n)}

Kept == Eligible \cap DOMAIN results

Removed == Eligible \ DOMAIN results

\* C29: cleanup never removes an entry whose name starts with latest-,
\* minimal_iso or an --excluded-dirs prefix, nor anything that is not a
\* directory, and never changes an entry; when it is done, the eligible
\* directories it kept are keep_builds many, or all of them when there are
\* fewer, and none of them was modified before one it removed.
C29_KeepsNewestBuilds ==
    /\ \A n \in DOMAIN results0 :
        Protected(n) \/ results0[n].kind # "dir" => n \in DOMAIN results
    /\ \A n \in DOMAIN results : n \in DOMAIN results0
                                 /\ results[n] = results0[n]
    /\ pc = "done" =>
        /\ Cardinality(Kept)
             = (IF args.keep_builds < Cardinality(Eligible)
                THEN args.keep_builds ELSE Cardinality(Eligible))
        /\ \A k \in Kept, r \in Removed :
              results0[k].mtime >= results0[r].mtime

\* Of three builds, one of them excluded, the older eligible one was
\* removed and the newer kept.
C29_Witness ==
    /\ pc = "done"
    /\ Builds \subseteq DOMAIN results0
    /\ args.keep_builds = 1
    /\ args.excluded_dirs = << <<"9">> >>
    /\ Cardinality(Kept) = 1
    /\ Cardinality(Removed) = 1
    /\ \E k \in Kept, r \in Removed : results0[k].mtime > results0[r].mtime

\* keep_builds is 0 and every eligible directory was removed.
C29_KeepNone ==
    /\ pc = "done"
    /\ args.keep_builds = 0
    /\ Removed # {}
    /\ Kept = {}

(***************************************************************************)
(* SpecConflict: the two functions of SpecReorg on a variant whose         *)
(* destinations may be there already, empty or holding what an earlier run *)
(* moved there, while pungi has written the wrappers anew.                 *)
(***************************************************************************)
ConflictChoices == {"absent", "empty", "full"}

InitConflict ==
    /\ pc = "move_sources_folder_to_right_place"
    /\ args = [NoArgs EXCEPT !.repos = <<"BaseOS">>]
    /\ repo_i = 1
    /\ \E shape \in SUBSET {"source", "debug", "os"} :
       \E sharded \in BOOLEAN :
       \E source_dst \in ConflictChoices, debug_dst \in ConflictChoices :
        LET v == "BaseOS"
            a == args.arch
            dirs == {<<v>>}
                    \cup (IF source_dst = "empty" THEN {<<v, "Source">>}
                          ELSE {})
                    \cup (IF debug_dst = "empty" THEN {<<v, "debug", a>>}
                          ELSE {})
            files == VariantFiles(v, a, shape, sharded)
                     \cup (IF source_dst = "full"
                           THEN {<<v, "Source", "Packages", "old-4.src.rpm">>}
                           ELSE {})
                     \cup (IF debug_dst = "full"
                           THEN {<<v, "debug", a, "Packages",
                                   "old-debuginfo-4.rpm">>}
                           ELSE {})
        IN  fs = TreeOf(files, dirs)
    /\ fs0 = fs
    /\ inode = OrigInodes(fs)
    /\ data = OrigData(inode)
    /\ files0 = [inode |-> inode, data |-> data]
    /\ rglob = <<>>
    /\ signer = NoSigner
    /\ http = <<>>
    /\ attempts = <<>>
    /\ effects = <<>>
    /\ now = 1
    /\ results = <<>>
    /\ results0 = results
    /\ latest = LatestA
    /\ locals = NoLocals
    /\ gen = <<>>
    /\ processed = {}
    /\ middle_fs = <<>>
    /\ composeinfo = <<>>
    /\ rpms = <<>>
    /\ images = <<>>
    /\ docs0 = NoDocs
    /\ trace = <<>>

SpecConflict == InitConflict /\ [][NextReorg]_vars

\* The rename of a function is about to run and its destination exists.
RenameOntoExisting ==
    \/ /\ pc = "move_sources_folder_to_right_place"
       /\ Exists(fs, SourceWrapper)
       /\ Exists(fs, SourceDst)
    \/ /\ pc = "move_debug_rename"
       /\ Exists(fs, DebugDst)

\* C30: a function whose destination, <variant>/Source or
\* <variant>/debug/<arch>, exists when it renames the tree does not raise,
\* whether the destination is empty or not.
C30_ExistingDestination == [][RenameOntoExisting => pc' # "raised"]_vars

\* The loop body of cli_main has run to its last step for the result.
ResultProcessed == Did("remove_not_needed_repos")

\* C31: once a result is processed, every repomd.xml the service signed
\* and that is still in the tree holds the text that was sent for its
\* detached signature, and a CHECKSUM the service clear-signed holds
\* exactly the signed message the service answered with.
C31_SignedContentKept ==
    ResultProcessed =>
        \A k \in SignRequests :
            LET p == http[k].file
            IN  http[k].status = "ok" /\ Exists(fs, p) =>
                    data[inode[p]]
                      = (IF http[k].sign_type = "detach-sign"
                         THEN http[k].body
                         ELSE SignResponse(p, "clear-sign", http[k].body))

(***************************************************************************)
(* SpecShared: the loop of line 680 over two latest-* links that name the  *)
(* same in-progress directory, the body run for one and then the other.    *)
(***************************************************************************)
InitShared ==
    /\ pc = "for"
    /\ gen \in Orders({LatestA, LatestB})
    /\ \E abs \in BOOLEAN, sign \in BOOLEAN, sharded \in BOOLEAN :
       \E platform \in {{}, {PlatformRepodata("BaseOS", "x86_64")
                                \o <<"updateinfo.xml">>}} :
        LET a == "x86_64"
            v == "BaseOS"
            json == {MetadataPath \o <<n>> :
                        n \in {"composeinfo.json", "rpms.json", "images.json"}}
        IN  /\ args = [NoArgs EXCEPT !.env_abs = abs, !.repos = <<v>>,
                                     !.sign = sign, !.platform = platform]
            /\ fs = TreeOf(json \cup VariantFiles(v, a, Parts, sharded),
                           {<<v>>})
            /\ composeinfo = [w \in {v} |->
                 [id |-> w,
                  paths |-> [pt \in ComposePathTypes(Parts) |->
                               [x \in {a} |-> OrigComposePath(w, pt, x)]]]]
            /\ rpms = [w \in {v} |-> [x \in {a} |->
                 [s \in {"bash-5.src"} |->
                    ArtifactsOf(w, x, Parts, sharded)]]]
            /\ images = [w \in {v} |-> [x \in {a} |->
                 <<[path |-> <<w, x, "iso", w \o "-1.iso">>,
                    type |-> "dvd", size |-> 1]>>]]
    /\ results =
         [n \in {LatestA, LatestB, LastCompose} |->
            IF n = LastCompose THEN DirEntry(n, "tree")
            ELSE [kind |-> "link",
                  target |-> [abs |-> FALSE, comps |-> <<LastCompose>>]]]
    /\ middle_fs = <<>>
    /\ docs0 = [composeinfo |-> composeinfo, rpms |-> rpms, images |-> images]
    /\ now \in Times
    /\ latest = <<>>
    /\ results0 = results
    /\ locals = NoLocals
    /\ processed = {}
    /\ repo_i = 0
    /\ trace = <<>>
    /\ fs0 = fs
    /\ inode = OrigInodes(fs)
    /\ data = OrigData(inode)
    /\ files0 = [inode |-> inode, data |-> data]
    /\ rglob = <<>>
    /\ signer = NoSigner
    /\ http = <<>>
    /\ attempts = <<>>
    /\ effects = <<>>

NextShared ==
    \/ for_latest_path
    \/ NextBody

SpecShared == InitShared /\ [][NextShared]_vars

\* The number of times a step was completed
TimesDone(step) == Cardinality({i \in DOMAIN trace : trace[i] = step})

\* C32: with two latest-* links naming the same in-progress directory, the
\* body run for the second after it was run for the first raises no error,
\* no step is completed on the shared tree more than once, and when the
\* loop is over every latest-* link names a directory of pungi-results.
C32_SharedDirectory ==
    /\ processed = {LatestA, LatestB} => pc # "raised"
    /\ \A s \in PostSteps \cup {Step(p, "BaseOS") : p \in PerRepoSteps} :
          TimesDone(s) <= 1
    /\ pc = "rmtree_middle_result_directory" =>
          \A n \in Matches(results) : Resolves(args, results, n)

(***************************************************************************)
(* SpecMirror: create_kickstart_folder on one variant that has no          *)
(* kickstart tree yet.  The process may be killed between two filesystem   *)
(* steps of the function, and the function may be called again.            *)
(***************************************************************************)
\* Where the call is cut: after copytree made the kickstart directory,
\* after the hardlink copy (line 268), after rmtree(repodata_dst_path)
\* (line 274), or after the second copytree made the repodata directory.
InterruptPoints == {"made", "linked", "removed", "repodata made"}

KickstartInterrupt ==
    /\ pc = "create_kickstart_folder"
    /\ LET src == <<CurrentRepo, args.arch, "os">>
           dst == <<CurrentRepo, args.arch, "kickstart">>
           linked == CopyTree(fs, src, dst)
           links  == CopyTree(inode, src, dst)
           pruned == RmTree(linked, dst \o <<"repodata">>)
       IN  /\ Exists(fs, src) /\ ~Exists(fs, dst)
           /\ \E at \in InterruptPoints :
               /\ at \in {"removed", "repodata made"}
                     => Exists(linked, dst \o <<"repodata">>)
               /\ fs' = CASE at = "made" -> MakeDirs(fs, dst)
                          [] at = "linked" -> linked
                          [] at = "removed" -> pruned
                          [] OTHER -> MakeDirs(pruned, dst \o <<"repodata">>)
               /\ inode' = CASE at = "made" -> inode
                             [] at = "linked" -> links
                             [] OTHER -> RmTree(links, dst \o <<"repodata">>)
    /\ pc' = "interrupted"
    /\ trace' = Append(trace, "interrupted")
    /\ UNCHANGED <<args, effects, attempts, signer, http, rglob, data, files0,
                   fs0, now, results, results0, latest, locals, gen,
                   processed, middle_fs, composeinfo, rpms, images, docs0,
                   repo_i>>

\* Line 707 is run again on the tree as it is.
KickstartRerun ==
    /\ pc \in {"interrupted",
               "move_iso_and_its_artifacts_to_isos_arch_folder"}
    /\ Reruns < MaxReruns
    /\ pc' = "create_kickstart_folder"
    /\ trace' = Append(trace, "rerun")
    /\ UNCHANGED <<args, effects, attempts, signer, http, rglob, inode, data,
                   files0, fs0, now, results, results0, latest, locals, gen,
                   processed, middle_fs, fs, composeinfo, rpms, images, docs0,
                   repo_i>>

InitMirror ==
    /\ pc = "create_kickstart_folder"
    /\ \E v \in {"BaseOS", "Extras"} :
        args = [NoArgs EXCEPT !.repos = <<v>>]
    /\ repo_i = 1
    /\ \E os \in OsShapes, sharded \in BOOLEAN, other \in BOOLEAN :
        LET v == args.repos[1]
            a == args.arch
            files == OsFiles(v, a, "os", os, sharded)
                     \cup (IF other
                           THEN VariantFiles("Minimal", a, {"os"}, sharded)
                           ELSE {})
        IN  fs = TreeOf(files, {<<v>>})
    /\ fs0 = fs
    /\ inode = OrigInodes(fs)
    /\ data = OrigData(inode)
    /\ files0 = [inode |-> inode, data |-> data]
    /\ rglob = <<>>
    /\ signer = NoSigner
    /\ http = <<>>
    /\ attempts = <<>>
    /\ effects = <<>>
    /\ now = 1
    /\ results = <<>>
    /\ results0 = results
    /\ latest = LatestA
    /\ locals = NoLocals
    /\ gen = <<>>
    /\ processed = {}
    /\ middle_fs = <<>>
    /\ composeinfo = <<>>
    /\ rpms = <<>>
    /\ images = <<>>
    /\ docs0 = NoDocs
    /\ trace = <<>>

NextMirror ==
    \/ create_kickstart_folder
    \/ KickstartInterrupt
    \/ KickstartRerun

SpecMirror == InitMirror /\ [][NextMirror]_vars

\* C33: when create_kickstart_folder returns and the variant has a
\* kickstart tree, on a first call or on one that follows an interrupted
\* call, no file of kickstart/repodata is the same underlying file as a
\* file of os/repodata, and every file of os is in kickstart at the same
\* relative path.
C33_MirrorAfterRerun ==
    KickstartReturned /\ Exists(fs, KickstartPath) =>
        /\ \A k \in Files(fs), q \in Files(fs) :
              /\ IsPrefix(KickstartPath \o <<"repodata">>, k)
              /\ IsPrefix(OsPath \o <<"repodata">>, q)
              => inode[k] # inode[q]
        /\ \A q \in Files(fs) :
              IsPrefix(OsPath, q)
                 => Exists(fs, Rebase(q, OsPath, KickstartPath))

\* C34: when move_iso_and_its_artifacts_to_isos_arch_folder returns, every
\* *.iso and *.manifest file that was in the iso directory of the variant
\* when it was called has a file of its name in isos/<arch> with the
\* content it had, also when isos/<arch> held a file of that name before.
C34_NoImageLost ==
    MoveIsoReturned /\ Exists(fs0, IsoFolder) =>
        \A q \in Children(fs0, IsoFolder) :
            FileName(q) \in IsoArtifactNames =>
                LET dst == IsosArchFolder \o <<FileName(q)>>
                IN  /\ Exists(fs, dst)
                    /\ data[inode[dst]] = files0.data[files0.inode[q]]

(***************************************************************************)
(* SpecRewrite: move_json_metadata_to_arch_folder and the three manifest   *)
(* rewriters (lines 742-757), run on the documents of SpecManifest and     *)
(* then run again on what they wrote.                                      *)
(***************************************************************************)
\* Lines 742-757 are run again on the metadata directory as it is.
ManifestRerun ==
    /\ pc = "merge_middle_isos"
    /\ Reruns < MaxReruns
    /\ pc' = "move_json_metadata_to_arch_folder"
    /\ trace' = Append(trace, "rerun")
    /\ UNCHANGED <<args, effects, attempts, signer, http, rglob, inode, data,
                   files0, fs0, now, results, results0, latest, locals, gen,
                   processed, middle_fs, fs, composeinfo, rpms, images, docs0,
                   repo_i>>

NextRewrite ==
    \/ NextManifest
    \/ ManifestRerun

SpecRewrite == InitManifest /\ [][NextRewrite]_vars

\* The artifacts of rpms.json as the compose tool wrote it
OrigArtifacts ==
    UNION {UNION {UNION {{docs0.rpms[v][a][s][r] : r \in DOMAIN docs0.rpms[v][a][s]} :
                            s \in DOMAIN docs0.rpms[v][a]} :
                    a \in DOMAIN docs0.rpms[v]} :
            v \in DOMAIN docs0.rpms}

\* Every artifact path names its file below a directory.
PathsHaveParent == \A art \in OrigArtifacts : Len(art.path) >= 2

\* C35 as stated: once the rewriters have run on the documents, no step of
\* a second run of move_json_metadata_to_arch_folder and the three
\* rewriters changes composeinfo.json, rpms.json, images.json or the
\* metadata directory.
C35_RewriteIdempotent ==
    [][Did("rerun") => UNCHANGED <<composeinfo, rpms, images, fs, inode>>]_vars

\* C35, for documents in which every artifact path of rpms.json names its
\* file below a directory: once the rewriters have run on the documents, no
\* step of a second run of move_json_metadata_to_arch_folder and the three
\* rewriters changes composeinfo.json, rpms.json, images.json or the
\* metadata directory.
C35_IdempotentBelowDirectory ==
    [][Did("rerun") /\ PathsHaveParent
          => UNCHANGED <<composeinfo, rpms, images, fs, inode>>]_vars

\* The rewriters have run twice on documents whose artifact paths name
\* their files below a directory, and the first run rewrote all three.
C35_Witness ==
    /\ Did("rerun")
    /\ pc = "merge_middle_isos"
    /\ PathsHaveParent
    /\ docs0.composeinfo # <<>> /\ composeinfo # docs0.composeinfo
    /\ docs0.rpms # <<>> /\ rpms # docs0.rpms
    /\ docs0.images # <<>> /\ images # docs0.images

(***************************************************************************)
(* SpecRepromote: rename_latest_dir called on the entries of SpecPromote   *)
(* and, after it returned, called again on the same latest-* entry.        *)
(***************************************************************************)
\* Line 791 is run again for the same latest_path.
PromoteRerun ==
    /\ pc = "done"
    /\ Reruns < MaxReruns
    /\ pc' = "rename_latest_dir"
    /\ results0' = results
    /\ trace' = Append(trace, "rerun")
    /\ UNCHANGED <<args, effects, attempts, signer, http, rglob, inode, data,
                   files0, fs0, now, results, latest, locals, gen, processed,
                   middle_fs, fs, composeinfo, rpms, images, docs0, repo_i>>

NextRepromote ==
    \/ NextPromote
    \/ PromoteRerun

SpecRepromote == InitPromote /\ [][NextRepromote]_vars

\* The call is a later one, on a link that an earlier call promoted: when
\* the call was made the link read the stamped name that call gave it.
CalledOnPromoted ==
    /\ Did("rerun")
    /\ IsLink(results0, latest)
    /\ HasTimestampPrefix(BaseName(results0[latest].target))

\* C36: a call of rename_latest_dir on a latest-* link that an earlier call
\* has promoted raises nothing, renames no directory and leaves the link
\* and every other entry of pungi-results as they were.
C36_PromoteOnce ==
    CalledOnPromoted =>
        /\ pc \in {"rename_latest_dir", "done"}
        /\ results = results0

\* The second call on a promoted link has returned.
C36_Witness ==
    /\ CalledOnPromoted
    /\ pc = "done"
    /\ trace[Len(trace)] = "rename_latest_dir"
    /\ HasTimestampPrefix(BaseName(results[latest].target))
    /\ BaseName(results[latest].target) \in DOMAIN results

\* ---------------------------------------------------------------------
\* The .treeinfo rewrite on a tree that was rewritten before
\* (lines 732-741 and 308-342)

\* Lines 324 and 327: str.replace(old, new) on a string of characters:
\* every occurrence of old, found from left to right and not overlapping
\* the one before it, becomes new.
RECURSIVE str_replace_from(_, _, _, _)
str_replace_from(s, old, new, i) ==
    IF i > Len(s) THEN <<>>
    ELSE IF /\ i + Len(old) - 1 <= Len(s)
            /\ SubSeq(s, i, i + Len(old) - 1) = old
    THEN new \o str_replace_from(s, old, new, i + Len(old))
    ELSE <<s[i]>> \o str_replace_from(s, old, new, i + 1)

str_replace(s) ==
    str_replace_from(s, <<"o", "s">>,
                     <<"k", "i", "c", "k", "s", "t", "a", "r", "t">>, 1)

\* The option values tried: every string of at most MaxValueLen characters
\* among the two of "os", the first and the last of "kickstart", and one
\* that is in neither.
MaxValueLen == 4

ValueChars == {"o", "s", "k", "t", "/"}

OptionValues == UNION {[1..n -> ValueChars] : n \in 0..MaxValueLen}

\* Lines 699-741 are run again for the variant on the tree as it is, at
\* the time of the new run (line 682).
TreeinfoRerun ==
    /\ pc = "repo_loop"
    /\ Reruns < MaxReruns
    /\ pc' = "create_kickstart_folder"
    /\ now' \in Times
    /\ trace' = Append(trace, "rerun")
    /\ UNCHANGED <<args, effects, attempts, signer, http, rglob, inode, data,
                   files0, fs0, results, results0, latest, locals, gen,
                   processed, middle_fs, fs, composeinfo, rpms, images, docs0,
                   repo_i>>

NextRetreeinfo ==
    \/ NextKickstart
    \/ TreeinfoRerun

SpecRetreeinfo == InitKickstart /\ [][NextRetreeinfo]_vars

\* The file at the current path was written by an earlier call of
\* update_kickstart_treeinfo_file when this call was made.
RewrittenBefore ==
    /\ rglob # <<>>
    /\ Head(rglob) \in DOMAIN files0.inode
    /\ files0.inode[Head(rglob)] = <<"new", Head(rglob)>>
    /\ KickstartSection \in DOMAIN CfgBefore(Head(rglob))

\* C37: when update_kickstart_treeinfo_file returns from a descriptor that
\* an earlier call has rewritten, the packages and repository values of
\* variant-AppStream are the ones the earlier call left; and for every
\* string, replacing "os" by "kickstart" in the outcome of that replacement
\* changes nothing.
C37_RewriteTwice ==
    /\ KickstartTreeInfoReturned /\ RewrittenBefore =>
        /\ Exists(fs, Head(rglob))
        /\ KickstartSection \in DOMAIN CfgAt(Head(rglob))
        /\ CfgAt(Head(rglob))[KickstartSection].packages
             = CfgBefore(Head(rglob))[KickstartSection].packages
        /\ CfgAt(Head(rglob))[KickstartSection].repository
             = CfgBefore(Head(rglob))[KickstartSection].repository
    /\ trace = <<>> =>
        \A s \in OptionValues : str_replace(str_replace(s)) = str_replace(s)

\* The second run has rewritten the descriptor of a kickstart tree whose
\* values the first run had changed.
C37_Witness ==
    /\ KickstartTreeInfoReturned
    /\ RewrittenBefore
    /\ Did("rerun")
    /\ CfgAt(Head(rglob))[KickstartSection].packages
         = <<"../../../AppStream/", args.arch, "/", "kickstart", "/Packages">>
    /\ \E s \in OptionValues :
        /\ str_replace(s) # s
        /\ Len(s) = MaxValueLen

(***************************************************************************)
(* jenkins.py: main runs the stages of Runner inside try and cleanup in    *)
(* finally.  effects is the log of one run of the job: a record for every  *)
(* stage that starts and for every command run_command has run, with its   *)
(* exit status.                                                            *)
(* results is pungi-results as in cleanup.py, a directory entry carrying   *)
(* its modification time.  The post stage is its promotion step,           *)
(* rename_latest_dir, and the cleanup stage is cleanup.py.                 *)
(***************************************************************************)
\* Line 79: self.compose_dir
COMPOSE_DIR == LastCompose

\* A build promoted before the runs that are modelled
OldBuild == <<"0", "-">> \o LastCompose

StageEntry(stage) == [kind |-> "stage", stage |-> stage]

CommandEntry(stage, command, exit_or_not, code) ==
    [kind |-> "run_command", stage |-> stage, command |-> command,
     exit_or_not |-> exit_or_not, code |-> code]

\* A command's exit status is ignored whatever its flags.
AfterCommandIgnored(code, exit_or_not, raise_exception, next, except, finally) ==
    next

\* Lines 161-166: where control goes when the command has ended with the
\* exit status code: exit() raises SystemExit, which no except clause of
\* the script catches, so the finally clause of line 574 is next.
AfterCommand(code, exit_or_not, raise_exception, next, except, finally) ==
    IF code = 0 THEN next
    ELSE IF exit_or_not THEN finally
    ELSE IF raise_exception THEN except
    ELSE next

RunnerUnchanged ==
    UNCHANGED <<args, attempts, signer, http, rglob, inode, data, files0,
                fs0, latest, locals, gen, processed, middle_fs, fs,
                composeinfo, rpms, images, docs0, repo_i>>

\* run_command(command) with the default flags, in a stage that has begun
run_command(stage, command, next) ==
    \E code \in {0, 1} :
        /\ effects' = Append(effects, CommandEntry(stage, command, TRUE, code))
        /\ pc' = AfterCommand(code, TRUE, TRUE, next, "finally", "finally")

\* Lines 297-304: the try block of checkout_scripts begins with ls, run
\* with exit_or_not=False
Runner_checkout_scripts ==
    /\ pc = "checkout_scripts"
    /\ \E code \in {0, 1} :
        /\ effects' = effects \o <<StageEntry("checkout_scripts"),
                                   CommandEntry("checkout_scripts", "ls",
                                                FALSE, code)>>
        /\ pc' = AfterCommand(code, FALSE, TRUE, "checkout_scripts_fetch",
                              "checkout_scripts_clone", "finally")
    /\ UNCHANGED <<results, results0, now, trace>>
    /\ RunnerUnchanged

\* Lines 305-311
Runner_checkout_scripts_fetch ==
    /\ pc = "checkout_scripts_fetch"
    /\ run_command("checkout_scripts", "git fetch", "prepare")
    /\ UNCHANGED <<results, results0, now, trace>>
    /\ RunnerUnchanged

\* Lines 312-319: except subprocess.SubprocessError
Runner_checkout_scripts_clone ==
    /\ pc = "checkout_scripts_clone"
    /\ run_command("checkout_scripts", "git clone", "prepare")
    /\ UNCHANGED <<results, results0, now, trace>>
    /\ RunnerUnchanged

\* Lines 189-204: prepare begins; the mirror is synchronized unless
\* skip_mirroring
Runner_prepare ==
    /\ pc = "prepare"
    /\ IF args.skip_mirroring
       THEN /\ effects' = Append(effects, StageEntry("prepare"))
            /\ pc' = "enable_products_repos"
       ELSE \E code \in {0, 1} :
            /\ effects' = effects \o <<StageEntry("prepare"),
                                       CommandEntry("prepare",
                                                    "dnf_reposync_synchronize",
                                                    TRUE, code)>>
            /\ pc' = AfterCommand(code, TRUE, TRUE, "enable_products_repos",
                                  "finally", "finally")
    /\ UNCHANGED <<results, results0, now, trace>>
    /\ RunnerUnchanged

\* Lines 177-186 and 205: symlink_to and unlink raise OSError when the
\* mirror directory is not as expected
Runner_enable_products_repos ==
    /\ pc = "enable_products_repos"
    /\ pc' \in {"add_env_files", "finally"}
    /\ UNCHANGED <<effects, results, results0, now, trace>>
    /\ RunnerUnchanged

\* Lines 206-213: prepare.py add_env_files
Runner_add_env_files ==
    /\ pc = "add_env_files"
    /\ run_command("prepare", "add_env_files", "add_koji_profile")
    /\ UNCHANGED <<results, results0, now, trace>>
    /\ RunnerUnchanged

\* Lines 215-222: prepare.py add_koji_profile
Runner_add_koji_profile ==
    /\ pc = "add_koji_profile"
    /\ run_command("prepare", "add_koji_profile", "prepare_build_conf")
    /\ UNCHANGED <<results, results0, now, trace>>
    /\ RunnerUnchanged

\* Lines 224-241: prepare.py prepare_build_conf
Runner_prepare_build_conf ==
    /\ pc = "prepare_build_conf"
    /\ run_command("prepare", "prepare_build_conf", "build")
    /\ UNCHANGED <<results, results0, now, trace>>
    /\ RunnerUnchanged

\* Lines 243-250: [[ -d compose_dir ]] && rm -rf compose_dir, run with
\* exit_or_not=False and raise_exception=False; its status is that of the
\* test when the directory is not there.
Runner_build ==
    /\ pc = "build"
    /\ LET code == IF IsDir(results, COMPOSE_DIR) THEN 0 ELSE 1
       IN  /\ effects' = effects \o <<StageEntry("build"),
                                      CommandEntry("build", "rm -rf", FALSE,
                                                   code)>>
           /\ pc' = AfterCommand(code, FALSE, FALSE, "build_py", "finally",
                                 "finally")
    /\ results' = IF IsDir(results, COMPOSE_DIR)
                  THEN RemoveEntry(results, COMPOSE_DIR)
                  ELSE results
    /\ UNCHANGED <<results0, now, trace>>
    /\ RunnerUnchanged

\* The compose directory the compose tool has made at time t
ComposeEntry(t) ==
    [kind |-> "dir", content |-> "tree", born |-> COMPOSE_DIR, mtime |-> t]

\* Lines 252-262, with lines 63-95 of build.py: pungi-koji --compose-dir
\* makes the compose directory, which takes time, and when it has succeeded
\* points the latest link at it; a failed compose leaves what it has made
\* and no link.
Runner_build_py ==
    /\ pc = "build_py"
    /\ now < MaxTime
    /\ now' = now + 1
    /\ \E code \in {0, 1} :
        /\ effects' = Append(effects,
                             CommandEntry("build", "build.py", TRUE, code))
        /\ pc' = AfterCommand(code, TRUE, TRUE, "post", "finally", "finally")
        /\ IF code = 0
           THEN results' =
                  PutEntry(PutEntry(results, COMPOSE_DIR, ComposeEntry(now')),
                           LatestA,
                           [kind |-> "link",
                            target |-> [abs |-> FALSE,
                                        comps |-> <<COMPOSE_DIR>>]])
           ELSE \/ results' = PutEntry(results, COMPOSE_DIR, ComposeEntry(now'))
                \/ results' = results
    /\ UNCHANGED <<results0, trace>>
    /\ RunnerUnchanged

\* Lines 264-278: post_actions.py ends with an error before the promotion,
\* or reaches rename_latest_dir
Runner_post ==
    /\ pc = "post"
    /\ \/ /\ effects' = Append(effects, StageEntry("post"))
          /\ pc' = "rename_latest_dir"
          /\ results0' = results
       \/ /\ effects' = effects \o <<StageEntry("post"),
                                     CommandEntry("post", "post_actions.py",
                                                  TRUE, 1)>>
          /\ pc' = AfterCommand(1, TRUE, TRUE, "finally", "finally", "finally")
          /\ UNCHANGED results0
    /\ UNCHANGED <<results, now, trace>>
    /\ RunnerUnchanged

\* The stage that began last
Running ==
    LET stages == EffectsOf("stage")
    IN  IF stages = {} THEN ""
        ELSE effects[CHOOSE k \in stages : \A j \in stages : j <= k].stage

\* Line 278: post_actions.py has ended, with status 0 unless it raised
Runner_post_returned ==
    /\ pc \in {"done", "raised"}
    /\ Running = "post"
    /\ LET code == IF pc = "done" THEN 0 ELSE 1
       IN  /\ effects' = Append(effects,
                                CommandEntry("post", "post_actions.py", TRUE,
                                             code))
           /\ pc' = AfterCommand(code, TRUE, TRUE, "finally", "finally",
                                 "finally")
    /\ UNCHANGED <<results, results0, now, trace>>
    /\ RunnerUnchanged

\* Lines 574-575 and 168-175: the finally clause calls cleanup, which runs
\* cleanup.py with --keep-builds and --excluded-dirs compose_dir; the
\* command fails at once when the scripts are not there
Runner_cleanup ==
    /\ pc = "finally"
    /\ \/ /\ effects' = Append(effects, StageEntry("cleanup"))
          /\ pc' = "cleanup_cli_main"
          /\ results0' = results
       \/ /\ effects' = effects \o <<StageEntry("cleanup"),
                                     CommandEntry("cleanup", "cleanup.py",
                                                  TRUE, 1)>>
          /\ pc' = AfterCommand(1, TRUE, TRUE, "exited", "exited", "exited")
          /\ UNCHANGED results0
    /\ UNCHANGED <<results, now, trace>>
    /\ RunnerUnchanged

\* Line 175: cleanup.py has ended and main is over
Runner_cleanup_returned ==
    /\ pc = "done"
    /\ Running = "cleanup"
    /\ effects' = Append(effects,
                         CommandEntry("cleanup", "cleanup.py", TRUE, 0))
    /\ pc' = AfterCommand(0, TRUE, TRUE, "exited", "exited", "exited")
    /\ UNCHANGED <<results, results0, now, trace>>
    /\ RunnerUnchanged

\* The job is run again, on what the run before has left.
Runner_main ==
    /\ pc = "exited"
    /\ Reruns < MaxReruns
    /\ pc' = "checkout_scripts"
    /\ effects' = <<>>
    /\ trace' = Append(trace, "rerun")
    /\ UNCHANGED <<results, results0, now>>
    /\ RunnerUnchanged

RunnerArgs(keep_builds, skip_mirroring) ==
    [env_abs |-> TRUE, keep_builds |-> keep_builds,
     excluded_dirs |-> <<COMPOSE_DIR>>, skip_mirroring |-> skip_mirroring]

InitRunner ==
    /\ pc = "checkout_scripts"
    /\ \E keep \in 0..MaxKeep, skip \in BOOLEAN :
        args = RunnerArgs(keep, skip)
    /\ now = 0
    /\ \E old \in SUBSET {OldBuild, <<"minimal_iso">>} :
        results = [n \in old |->
                     [kind |-> "dir", content |-> "tree", born |-> n,
                      mtime |-> 0]]
    /\ results0 = results
    /\ latest = LatestA
    /\ locals = NoLocals
    /\ gen = <<>>
    /\ processed = {}
    /\ middle_fs = <<>>
    /\ fs = NoFs
    /\ fs0 = fs
    /\ inode = OrigInodes(fs)
    /\ data = OrigData(inode)
    /\ files0 = [inode |-> inode, data |-> data]
    /\ rglob = <<>>
    /\ signer = NoSigner
    /\ http = <<>>
    /\ attempts = <<>>
    /\ effects = <<>>
    /\ composeinfo = <<>>
    /\ rpms = <<>>
    /\ images = <<>>
    /\ docs0 = NoDocs
    /\ repo_i = 0
    /\ trace = <<>>

NextRunner ==
    \/ Runner_checkout_scripts
    \/ Runner_checkout_scripts_fetch
    \/ Runner_checkout_scripts_clone
    \/ Runner_prepare
    \/ Runner_enable_products_repos
    \/ Runner_add_env_files
    \/ Runner_add_koji_profile
    \/ Runner_prepare_build_conf
    \/ Runner_build
    \/ Runner_build_py
    \/ Runner_post
    \/ NextPromote
    \/ Runner_post_returned
    \/ Runner_cleanup
    \/ NextCleanup
    \/ Runner_cleanup_returned
    \/ Runner_main

SpecRunner == InitRunner /\ [][NextRunner]_vars

\* The run is over: cleanup has returned or ended the process.
RunOver == pc = "exited"

\* The command of that name has ended with that status in this run.
Ended(command, code) ==
    \E k \in EffectsOf("run_command") :
        effects[k].command = command /\ effects[k].code = code

\* The run built a compose, promoted it and cleaned up, all with success.
CompleteSequence ==
    /\ RunOver
    /\ Ended("build.py", 0)
    /\ Ended("post_actions.py", 0)
    /\ Ended("cleanup.py", 0)

\* The directories of pungi-results r that cleanup may remove
Prunable(r) == {n \in DOMAIN r : IsDir(r, n) /\ ~Protected(n)}

Stages == <<"checkout_scripts", "prepare", "build", "post">>

StagesBegun ==
    SelectSeq(effects, LAMBDA e : e.kind = "stage" /\ e.stage # "cleanup")

InOrder ==
    /\ Len(StagesBegun) <= Len(Stages)
    /\ \A i \in DOMAIN StagesBegun : StagesBegun[i].stage = Stages[i]

\* No stage but cleanup begins after entry k of the log.
NothingBeginsAfter(k) ==
    \A j \in EffectsOf("stage") : j > k => effects[j].stage = "cleanup"

CleanupsBegun == {k \in EffectsOf("stage") : effects[k].stage = "cleanup"}

\* cleanup never begins twice, no stage begins after it, and it has begun
\* when the run is over.
CleanupOnceAtEnd ==
    /\ Cardinality(CleanupsBegun) <= 1
    /\ \A k \in CleanupsBegun : NothingBeginsAfter(k)
    /\ RunOver => CleanupsBegun # {}

\* The command that follows entry k of the log, if any, is that one.
FollowedBy(k, command) ==
    k < Len(effects) /\ effects[k + 1].kind = "run_command"
        => effects[k + 1].command = command

\* C39 as stated: the stages begin in the order checkout_scripts, prepare,
\* build, post; after any command that exits non-zero no stage begins but
\* cleanup; and cleanup begins exactly once, at the end of every run.
C39_AnyNonZeroStops ==
    /\ InOrder
    /\ \A k \in EffectsOf("run_command") :
        effects[k].code # 0 => NothingBeginsAfter(k)
    /\ CleanupOnceAtEnd

\* C39: the stages begin in the order checkout_scripts, prepare, build,
\* post; after a command run with exit_or_not that exits non-zero no stage
\* begins but cleanup, and no other command of the stage is run; the two
\* commands run without exit_or_not are ls in checkout_scripts, which is
\* followed by git clone when it fails, and the removal of the old compose
\* directory in build, which is followed by build.py whatever its status;
\* and cleanup begins exactly once, at the end of every run.
C39_StagesInOrder ==
    /\ InOrder
    /\ \A k \in EffectsOf("run_command") :
        /\ effects[k].code # 0 /\ effects[k].exit_or_not =>
            /\ NothingBeginsAfter(k)
            /\ \A j \in EffectsOf("run_command") :
                j > k => effects[j].stage = "cleanup"
        /\ ~effects[k].exit_or_not =>
            effects[k].command \in {"ls", "rm -rf"}
        /\ effects[k].command = "ls" =>
            FollowedBy(k, IF effects[k].code = 0 THEN "git fetch"
                          ELSE "git clone")
        /\ effects[k].command = "rm -rf" => FollowedBy(k, "build.py")
    /\ CleanupOnceAtEnd

\* build.py has failed, post has not begun, and cleanup has run and ended
\* the run.
C39_Witness ==
    /\ RunOver
    /\ Ended("build.py", 1)
    /\ Len(StagesBegun) = 3
    /\ Ended("cleanup.py", 0)
    /\ Cardinality(CleanupsBegun) = 1

====
